---- MODULE Spec2Model ----
(***************************************************************************)
(* Model of the shopii review scraper: the rating calculator               *)
(* (processors/rating_calculator.py) and the Celery worker (worker.py).    *)
(*                                                                         *)
(* Numbers.  Python floats are modelled in fixed point:                    *)
(*   - a per-review sentiment is an integer count of halves (2 = 1.0);     *)
(*   - a credibility weight is an integer count of hundredths;             *)
(*   - the fields of a returned ProductRating, which the code rounds to    *)
(*     two decimals, are integer counts of hundredths, each rounded from   *)
(*     the exact value of its expression;                                  *)
(*   - the sum that int() truncates to ai_rating is formed in units of     *)
(*     1/10000 ("E4").                                                     *)
(* A float that is not finite (json.loads accepts 1e999, Infinity, NaN)    *)
(* is the separate value NonFinite.                                        *)
(* round(x, 2) is taken of the exact value, ties to even; where the exact  *)
(* value is a decimal tie the binary double may fall to either side, so a  *)
(* modelled field can differ from Python's by one hundredth there.         *)
(*                                                                         *)
(* Database.  src/ holds no schema; the unique indexes on                  *)
(* review_sources.source_url and product_ratings.product_id are the ones   *)
(* the ON CONFLICT clauses of worker.py (lines 129 and 252) rely on.       *)
(***************************************************************************)
EXTENDS Integers, Sequences, FiniteSets

VARIABLES
    \* -- one call of analyze_review (SpecAnalyze)
    review,         \* the ScrapedReview passed in
    response,       \* what the text backend does for it
    analysis,       \* the outcome of analyze_review, or NotCalled
    \* -- one call of calculate_rating (SpecCalc)
    reviews,        \* the list passed in
    responses,      \* the backend's behaviour for each position
    summary_reply,  \* the backend's behaviour for the summary request
    analyses,       \* the local list `analyses`
    rating,         \* the outcome of calculate_rating, or NotCalled
    \* -- the worker and its database (Spec)
    review_sources,   \* table review_sources: the committed rows, in insertion order
    product_ratings,  \* table product_ratings: the committed rows
    last_scraped_at,  \* products.last_scraped_at per product (0: never)
    now,              \* the database clock NOW()
    queue,            \* tasks waiting for their retry
    executions,       \* tasks submitted so far
    active,           \* the worker processes that take tasks
    pc,               \* per worker: where it is in scrape_product_reviews
    task,             \* per worker: the task's arguments and its retry count
    scraper_i,        \* per worker: position in the `scrapers` list
    all_reviews,      \* per worker: the local list `all_reviews`
    review_i,         \* per worker: position of the ingestion loop in all_reviews
    session,          \* per worker: rows its open transaction has inserted
    rating_out,       \* per worker: the local `rating`
    result,           \* per worker: how its last execution ended
    \* -- history, read by the properties only
    stored_before,    \* per worker: the source_urls stored when its ingestion began
    prev_reviews,     \* all_reviews of the execution that last committed its ingestion
    last_success,     \* per product: the rating and time of its last successful run
    at_start,         \* per worker: the tables as they were when its task began
    some_failed,      \* per worker: an adapter has raised during its task
    \* -- one call of an adapter's search (SpecSearch)
    search_in,        \* the adapter, its `limit` and what its backend answers
    search_out,       \* the source_urls of the list search returned, or NotCalled
    \* -- one call of normalize_content (SpecNormalize)
    content,          \* the argument: None or a text
    normalized        \* what normalize_content returned, or NotCalled

calc_vars == <<reviews, responses, summary_reply, analyses, rating>>
analyze_vars == <<review, response, analysis>>
db_vars == <<review_sources, product_ratings, last_scraped_at, now>>
run_vars == <<pc, task, scraper_i, all_reviews, review_i, session, rating_out, result>>
history_vars == <<stored_before, prev_reviews, last_success, at_start, some_failed>>
worker_vars == <<db_vars, queue, executions, active, run_vars, history_vars>>
search_vars == <<search_in, search_out>>
text_vars == <<content, normalized>>
vars == <<analyze_vars, calc_vars, worker_vars, search_vars, text_vars>>

----------------------------------------------------------------------------
(* Optional[int]: None is the empty sequence, a value v is <<v>>. *)
None == <<>>
Some(v) == <<v>>
\* Python truthiness of an Optional[int]: None and 0 are falsy.
Truthy(o) == o # None /\ o[1] # 0
\* `o or 0`
OrZero(o) == IF Truthy(o) THEN o[1] ELSE 0

Min(a, b) == IF a <= b THEN a ELSE b
Max(a, b) == IF a >= b THEN a ELSE b

\* a / b (b > 0) rounded to the nearest integer, halves upward.
DivNearest(a, b) == (2 * a + b) \div (2 * b)
\* int(a / b) for b > 0: truncation toward zero.
TruncDiv(a, b) == IF a >= 0 THEN a \div b ELSE -((-a) \div b)
\* a * m / b (b > 0, 0 <= a) rounded to the nearest, without forming a * m
\* when a is large: the quotient and the remainder of a by b are scaled apart.
MulDivNearest(a, m, b) == (a \div b) * m + DivNearest((a % b) * m, b)

RECURSIVE ISqrtBetween(_, _, _)
ISqrtBetween(n, lo, hi) ==
    IF lo >= hi THEN lo
    ELSE LET mid == (lo + hi + 1) \div 2
         IN  IF mid * mid <= n THEN ISqrtBetween(n, mid, hi)
             ELSE ISqrtBetween(n, lo, mid - 1)
\* floor(sqrt(n)) for 0 <= n <= 10^8
ISqrt(n) == ISqrtBetween(n, 0, 10000)

RECURSIVE SumSeq(_)
SumSeq(s) == IF s = <<>> THEN 0 ELSE Head(s) + SumSeq(Tail(s))

\* s[:k]
Take(s, k) == SubSeq(s, 1, Min(Len(s), k))

\* a / b (b > 0) rounded to the nearest integer, ties to even: round().
RoundRat(a, b) ==
    LET q == a \div b
        r == a % b
    IN  IF 2 * r < b THEN q
        ELSE IF 2 * r > b THEN q + 1
        ELSE IF q % 2 = 0 THEN q ELSE q + 1

----------------------------------------------------------------------------
(* Floats that may be non-finite. *)
Fin(v) == [finite |-> TRUE, v |-> v]
NonFinite == [finite |-> FALSE, v |-> 0]

----------------------------------------------------------------------------
(* rating_calculator.py: SOURCE_CREDIBILITY, in hundredths. *)
SOURCE_CREDIBILITY ==
    [wirecutter |-> 95, rtings |-> 95, techradar |-> 85, youtube |-> 70,
     reddit |-> 60, forum |-> 55, unknown |-> 50]

\* SOURCE_CREDIBILITY.get(source_type, 0.5)
base_credibility(source_type) ==
    IF source_type \in DOMAIN SOURCE_CREDIBILITY
    THEN SOURCE_CREDIBILITY[source_type]
    ELSE 50

\* The buckets of analyze_review, lines 59-66.
EngagementBonusNoTop(upvotes) ==
    IF Truthy(upvotes)
    THEN IF upvotes[1] > 50 THEN 5
         ELSE IF upvotes[1] > 10 THEN 2
         ELSE 0
    ELSE 0
engagement_bonus(upvotes) ==
    IF Truthy(upvotes)
    THEN IF upvotes[1] > 100 THEN 10
         ELSE IF upvotes[1] > 50 THEN 5
         ELSE IF upvotes[1] > 10 THEN 2
         ELSE 0
    ELSE 0

\* credibility = min(1.0, base_credibility + engagement_bonus)
credibility(r) == Min(100, base_credibility(r.source_type) + engagement_bonus(r.upvotes))

----------------------------------------------------------------------------
(* The text backend's behaviour for one messages.create call, as far as
   analyze_review can tell it apart:
     kind "raise"    the call raises, or the response has no content block;
     kind "nomatch"  re.search finds no brace-delimited fragment in the text;
     kind "badjson"  a fragment is found and json.loads raises on it;
     kind "json"     the fragment parses to an object, whose three fields are
                     described by .sentiment, .pros and .cons.
   A field is absent (t = "absent"), or present and usable (t = "num" with a
   float f, t = "list" with items), or present and unusable (t = "bad": a
   sentiment float() rejects, such as null or "n/a"; a pros/cons value that
   cannot be sliced, such as null or a number).
   A phrase is a sequence of one-character strings. *)
Absent == [t |-> "absent"]
Bad == [t |-> "bad"]
Num(f) == [t |-> "num", f |-> f]
List(items) == [t |-> "list", items |-> items]

Raise == [kind |-> "raise", sentiment |-> Absent, pros |-> Absent, cons |-> Absent]
NoMatch == [kind |-> "nomatch", sentiment |-> Absent, pros |-> Absent, cons |-> Absent]
BadJson == [kind |-> "badjson", sentiment |-> Absent, pros |-> Absent, cons |-> Absent]
Json(s, p, c) == [kind |-> "json", sentiment |-> s, pros |-> p, cons |-> c]

\* data.get("sentiment", 0) and data.get("pros", []) / data.get("cons", [])
GetSentiment(field) == IF field.t = "absent" THEN Fin(0) ELSE field.f
GetList(field) == IF field.t = "absent" THEN <<>> ELSE field.items

\* The try block of analyze_review, lines 70-104: it returns an analysis,
\* raises (the call, json.loads, float() or the slicing), or falls through
\* because json_match is None.
TryBlock(r, resp) ==
    IF resp.kind = "raise" THEN [outcome |-> "exception"]
    ELSE IF resp.kind = "nomatch" THEN [outcome |-> "fallthrough"]
    ELSE IF resp.kind = "badjson" THEN [outcome |-> "exception"]
    ELSE IF resp.sentiment.t = "bad" THEN [outcome |-> "exception"]
    ELSE IF resp.pros.t = "bad" \/ resp.cons.t = "bad" THEN [outcome |-> "exception"]
    ELSE [outcome |-> "return",
          sentiment |-> GetSentiment(resp.sentiment),
          pros |-> Take(GetList(resp.pros), 3),
          cons |-> Take(GetList(resp.cons), 3)]

\* The default neutral analysis, lines 108-114.
NeutralAnalysisNoWeight(r) ==
    [raised |-> FALSE, sentiment |-> Fin(0), pros |-> <<>>, cons |-> <<>>,
     credibility_weight |-> 0]
NeutralAnalysis(r) ==
    [raised |-> FALSE, sentiment |-> Fin(0), pros |-> <<>>, cons |-> <<>>,
     credibility_weight |-> credibility(r)]

\* RatingCalculator.analyze_review.  `except Exception` (line 105) swallows what
\* the try block raises, and control reaches the default at line 109.
analyze_review(r, resp) ==
    LET t == TryBlock(r, resp)
    IN  IF t.outcome = "return"
        THEN [raised |-> FALSE, sentiment |-> t.sentiment, pros |-> t.pros,
              cons |-> t.cons, credibility_weight |-> credibility(r)]
        ELSE NeutralAnalysis(r)

----------------------------------------------------------------------------
(* Inputs of one analyze_review call. *)
NotCalled == [called |-> FALSE]

\* "blog" stands for a source type SOURCE_CREDIBILITY does not list.
SourceTypes == DOMAIN SOURCE_CREDIBILITY \cup {"blog"}
\* Upvote counts on both sides of every bucket edge, and a negative one.
UpvoteValues == {-5, 0, 1, 10, 11, 50, 51, 100, 101, 150}
Upvotes == {None} \cup {Some(v) : v \in UpvoteValues}

PhraseA == <<"G", "o", "o", "d">>
PhraseB == <<"b", "a", "d">>
PhraseC == <<"o", "k">>
PhraseD == <<"d", "o">>

AnalyzeReviews ==
    [source_type : SourceTypes, upvotes : Upvotes, comment_count : {None}]
\* 1998 halves is the sentiment 999.
SentimentFields ==
    {Absent, Bad, Num(NonFinite)} \cup {Num(Fin(v)) : v \in {-2, 1, 2, 1998}}
ListFields ==
    {Absent, Bad, List(<<>>), List(<<PhraseA>>),
     List(<<PhraseA, PhraseB, PhraseC, PhraseD>>)}
AnalyzeResponses ==
    {Raise, NoMatch, BadJson}
    \cup {Json(s, p, c) : s \in SentimentFields, p \in ListFields,
                          c \in {Absent, Bad, List(<<PhraseB>>)}}

----------------------------------------------------------------------------
(* Phrases: str.lower, str.strip and str.capitalize on sequences of
   one-character strings. *)
UpperToLower == [G |-> "g", B |-> "b", O |-> "o", K |-> "k", D |-> "d", A |-> "a"]
OnlyBlank == {" "}
Whitespace == {" ", "\n"}
LowerChar(c) == IF c \in DOMAIN UpperToLower THEN UpperToLower[c] ELSE c
UpperChar(c) ==
    IF \E u \in DOMAIN UpperToLower : UpperToLower[u] = c
    THEN CHOOSE u \in DOMAIN UpperToLower : UpperToLower[u] = c
    ELSE c
lower(p) == [i \in 1..Len(p) |-> LowerChar(p[i])]
RECURSIVE lstrip(_)
lstrip(p) == IF p # <<>> /\ Head(p) \in Whitespace THEN lstrip(Tail(p)) ELSE p
RECURSIVE rstrip(_)
rstrip(p) ==
    IF p # <<>> /\ p[Len(p)] \in Whitespace THEN rstrip(SubSeq(p, 1, Len(p) - 1)) ELSE p
StripLeftOnly(p) == lstrip(p)
strip(p) == rstrip(lstrip(p))
capitalize(p) ==
    [i \in 1..Len(p) |-> IF i = 1 THEN UpperChar(p[i]) ELSE LowerChar(p[i])]

RECURSIVE Flatten(_)
Flatten(ss) == IF ss = <<>> THEN <<>> ELSE Head(ss) \o Flatten(Tail(ss))

\* The keys of all_pros / all_cons in the order the loop of lines 153-161
\* meets them: every phrase lower-cased and stripped, the empty ones dropped.
NormalizedPhrases(lists) ==
    SelectSeq([i \in 1..Len(Flatten(lists)) |-> strip(lower(Flatten(lists)[i]))],
              LAMBDA k : k # <<>>)
Occurrences(keys, k) == Cardinality({i \in 1..Len(keys) : keys[i] = k})
LastIndex(keys, k) == CHOOSE i \in 1..Len(keys) : keys[i] = k /\ \A j \in (i + 1)..Len(keys) : keys[j] # k
FirstIndex(keys, k) == CHOOSE i \in 1..Len(keys) : keys[i] = k /\ \A j \in 1..(i - 1) : keys[j] # k

\* sorted(d.items(), key=lambda x: x[1], reverse=True): by descending count;
\* the sort is stable, so equal counts stay in the dict's insertion order.
RECURSIVE SortedByCount(_, _)
SortedByCount(keys, left) ==
    IF left = {} THEN <<>>
    ELSE LET best == CHOOSE k \in left :
                        \A o \in left :
                            \/ Occurrences(keys, k) > Occurrences(keys, o)
                            \/ /\ Occurrences(keys, k) = Occurrences(keys, o)
                               /\ FirstIndex(keys, k) <= FirstIndex(keys, o)
         IN  <<best>> \o SortedByCount(keys, left \ {best})
\* top_pros / top_cons (lines 164-165) as displayed (lines 218-219).
TopPhrases(lists) ==
    LET keys == NormalizedPhrases(lists)
        top == Take(SortedByCount(keys, {keys[i] : i \in 1..Len(keys)}), 5)
    IN  [i \in 1..Len(top) |-> capitalize(top[i])]

----------------------------------------------------------------------------
(* RatingCalculator._generate_summary, lines 223-266. *)
FixedSummary ==
    [kind |-> "text", text |-> "No reviews available for analysis.",
     num_sources |-> 0, desc |-> ""]
\* `desc` is the band of lines 232-242; the backend's text comes back stripped,
\* the template of line 266 carries the band and the number of sources.
generate_summary(reply, desc, num_sources) ==
    IF reply.kind = "text"
    THEN [kind |-> "text", text |-> reply.text, num_sources |-> 0, desc |-> ""]
    ELSE [kind |-> "template", text |-> "", num_sources |-> num_sources,
          desc |-> desc]

----------------------------------------------------------------------------
(* RatingCalculator.calculate_rating, lines 116-221. *)

\* reviews[:20], line 138
AnalyzeCap == 20

\* The hard-coded rating of lines 123-134 (scores in hundredths).
EmptyRatingZeroScore ==
    [raised |-> FALSE, ai_rating |-> 0, confidence |-> 0, sentiment_score |-> 0,
     reliability_score |-> 0, value_score |-> 50, popularity_score |-> 0,
     sources_analyzed |-> 0, pros |-> <<>>, cons |-> <<>>, summary |-> FixedSummary]
EmptyRating ==
    [raised |-> FALSE, ai_rating |-> 50, confidence |-> 0, sentiment_score |-> 0,
     reliability_score |-> 0, value_score |-> 50, popularity_score |-> 0,
     sources_analyzed |-> 0, pros |-> <<>>, cons |-> <<>>, summary |-> FixedSummary]
\* calculate_rating left by an exception.
Raised ==
    [raised |-> TRUE, ai_rating |-> 0, confidence |-> 0, sentiment_score |-> 0,
     reliability_score |-> 0, value_score |-> 0, popularity_score |-> 0,
     sources_analyzed |-> 0, pros |-> <<>>, cons |-> <<>>, summary |-> FixedSummary]

\* The loop of lines 137-140: one analyze_review call per review of reviews[:20].
AnalysesUncapped(revs, resps) ==
    [i \in 1..Len(revs) |-> analyze_review(revs[i], resps[i])]
Analyses(revs, resps) ==
    [i \in 1..Min(Len(revs), AnalyzeCap) |-> analyze_review(revs[i], resps[i])]

\* Lines 143-147.  With the sentiments in halves and the weights in hundredths,
\* sentiment_score is weighted_sum / (2 * total_weight); the sentiments of `as`
\* are finite.
total_weight(as) == SumSeq([i \in 1..Len(as) |-> as[i].credibility_weight])
weighted_sum(as) ==
    SumSeq([i \in 1..Len(as) |-> as[i].sentiment.v * as[i].credibility_weight])
\* sentiment_score in E4 units
sentiment_score(as) ==
    IF total_weight(as) > 0
    THEN MulDivNearest(weighted_sum(as), 5000, total_weight(as))
    ELSE 0
\* round(sentiment_score, 2), line 213, in hundredths
sentiment_score_2(as) ==
    IF total_weight(as) > 0
    THEN RoundRat(50 * weighted_sum(as), total_weight(as))
    ELSE 0

\* statistics.stdev of n >= 2 sentiments s (in halves) is the square root of
\* VarNum(s) / (4 * VarDen(s)).
VarNum(s) ==
    Len(s) * SumSeq([i \in 1..Len(s) |-> s[i] * s[i]]) - SumSeq(s) * SumSeq(s)
VarDenPopulation(s) == Len(s) * Len(s)
VarDen(s) == Len(s) * (Len(s) - 1)
\* Whether statistics.stdev(s) >= 1
StdevAtLeastOne(s) == VarNum(s) >= 4 * VarDen(s)
\* c * stdev(s) rounded to the nearest integer, for a stdev below 1:
\* (2 * c * stdev)^2 is c^2 * VarNum / VarDen.
ScaledStdev(c, s) == (ISqrt((c * c * VarNum(s)) \div VarDen(s)) + 1) \div 2
\* The variance in units of 10^-8, for a variance below 1: num * 25000000 / den,
\* scaled in two steps of 5000 to stay within the integers' width.
VarianceE8(num, den) ==
    LET q == num \div den
        x == ((num % den) * 5000) \div den
        r == ((num % den) * 5000) % den
    IN  q * 25000000 + x * 5000 + (r * 5000) \div den
\* Lines 168-175, in E4 units.  max(0, 1 - stdev) is 0 exactly when the stdev is
\* at least 1, and only below 1 is the square root taken.
reliability_score(s) ==
    IF Len(s) > 1
    THEN IF StdevAtLeastOne(s) THEN 0
         ELSE Max(0, 10000 - ISqrt(VarianceE8(VarNum(s), VarDen(s))))
    ELSE 5000
\* round(reliability_score, 2), line 214, in hundredths
Reliability2DefaultZero(s) ==
    IF Len(s) > 1
    THEN IF StdevAtLeastOne(s) THEN 0 ELSE Max(0, 100 - ScaledStdev(100, s))
    ELSE 0
reliability_score_2(s) ==
    IF Len(s) > 1
    THEN IF StdevAtLeastOne(s) THEN 0 ELSE Max(0, 100 - ScaledStdev(100, s))
    ELSE 50

\* Lines 178-180: popularity_raw is PopularityNum / 100, the sums running over
\* all of `reviews`.
PopularityNum(revs) ==
    SumSeq([i \in 1..Len(revs) |-> OrZero(revs[i].upvotes)])
    + 2 * SumSeq([i \in 1..Len(revs) |-> OrZero(revs[i].comment_count)])
\* Line 181, in E4 units
popularity_score(revs) ==
    Min(10000, DivNearest(PopularityNum(revs) * 100, Len(revs)))
\* round(popularity_score, 2), line 216, in hundredths
popularity_score_2(revs) ==
    IF PopularityNum(revs) >= 100 * Len(revs) THEN 100
    ELSE RoundRat(PopularityNum(revs), Len(revs))

\* Line 184, in E4 units
value_score(as) ==
    IF total_weight(as) > 0
    THEN 5000 + MulDivNearest(weighted_sum(as), 1000, total_weight(as))
    ELSE 5000
\* round(value_score, 2), line 215, in hundredths
value_score_2(as) ==
    IF total_weight(as) > 0
    THEN 50 + RoundRat(10 * weighted_sum(as), total_weight(as))
    ELSE 50

\* Line 187: source_confidence * 0.6 in hundredths is min(60, 4 * len(reviews)).
SourceConfidenceUnsaturated(n) == 4 * n
source_confidence_60(n) == Min(60, 4 * n)
\* round(confidence, 2), lines 188 and 212, in hundredths
confidence_2(n, s) ==
    source_confidence_60(n)
    + (IF Len(s) > 1
       THEN IF StdevAtLeastOne(s) THEN 0 ELSE Max(0, 40 - ScaledStdev(40, s))
       ELSE 20)

\* Lines 192-199: int() truncates toward zero, then the clamp.  The sum is
\* formed in E4 units.
ai_rating(sentiment, reliability, value, popularity) ==
    Max(0, Min(100,
        TruncDiv(500000 + sentiment * 30 + reliability * 10 + value * 5 + popularity * 5,
                 10000)))

\* The band of lines 232-242, on the unrounded sentiment_score.
sentiment_desc(as) ==
    LET w == weighted_sum(as)
        t == total_weight(as)
    IN  IF t <= 0 THEN "mixed"
        ELSE IF w > t THEN "very positive"
        ELSE IF 5 * w > 2 * t THEN "positive"
        ELSE IF 5 * w > -2 * t THEN "mixed"
        ELSE IF w > -t THEN "negative"
        ELSE "very negative"

\* Line 217: sources_analyzed=len(reviews)
SourcesAnalyzedCapped(revs, as) == Len(as)
sources_analyzed(revs, as) == Len(revs)

\* What calculate_rating computes from `analyses` when every sentiment is finite.
ComputedRating(revs, as, reply) ==
    LET s == [i \in 1..Len(as) |-> as[i].sentiment.v]
    IN  [raised |-> FALSE,
         ai_rating |-> ai_rating(sentiment_score(as), reliability_score(s),
                                 value_score(as), popularity_score(revs)),
         confidence |-> confidence_2(Len(revs), s),
         sentiment_score |-> sentiment_score_2(as),
         reliability_score |-> reliability_score_2(s),
         value_score |-> value_score_2(as),
         popularity_score |-> popularity_score_2(revs),
         sources_analyzed |-> sources_analyzed(revs, as),
         pros |-> TopPhrases([i \in 1..Len(as) |-> as[i].pros]),
         cons |-> TopPhrases([i \in 1..Len(as) |-> as[i].cons]),
         summary |-> generate_summary(reply, sentiment_desc(as), Len(revs))]

\* A sentiment that is not finite makes statistics.stdev raise (two analyses or
\* more) or int() raise at line 192 (OverflowError, ValueError for NaN); a
\* raising analyze_review leaves the loop.  Nothing in calculate_rating catches.
calculate_rating(revs, resps, reply) ==
    IF revs = <<>> THEN EmptyRating
    ELSE LET as == Analyses(revs, resps)
         IN  IF \E i \in 1..Len(as) : as[i].raised \/ ~as[i].sentiment.finite
             THEN Raised
             ELSE ComputedRating(revs, as, reply)

----------------------------------------------------------------------------
(* SpecAnalyze: one call of analyze_review on every review and every backend
   behaviour of AnalyzeReviews x AnalyzeResponses. *)
NoReview == [source_type |-> "unknown", upvotes |-> None, comment_count |-> None]
NoReply == [kind |-> "raise", text |-> ""]

\* The worker at rest, with an empty database: the state of the worker while a
\* single call of the calculator is examined.
Products == {"p1", "p2"}
AllWorkers == {"w1", "w2"}
NoTask == [product_id |-> "p1", retries |-> 0]
NoResult == [status |-> "none", error |-> "", product_id |-> "p1"]

NoSnapshot == [review_sources |-> <<>>, product_ratings |-> <<>>,
               last_scraped_at |-> [p \in Products |-> 0]]
RunIdle ==
    /\ pc = [w \in AllWorkers |-> "idle"]
    /\ task = [w \in AllWorkers |-> NoTask]
    /\ scraper_i = [w \in AllWorkers |-> 1]
    /\ all_reviews = [w \in AllWorkers |-> <<>>]
    /\ review_i = [w \in AllWorkers |-> 1]
    /\ session = [w \in AllWorkers |-> <<>>]
    /\ rating_out = [w \in AllWorkers |-> NotCalled]
    /\ result = [w \in AllWorkers |-> NoResult]
DbEmpty ==
    /\ review_sources = <<>>
    /\ product_ratings = <<>>
    /\ last_scraped_at = [p \in Products |-> 0]
    /\ now = 1
HistoryEmpty ==
    /\ stored_before = [w \in AllWorkers |-> {}]
    /\ prev_reviews = <<>>
    /\ last_success = [p \in Products |-> None]
    /\ at_start = [w \in AllWorkers |-> NoSnapshot]
    /\ some_failed = [w \in AllWorkers |-> FALSE]
\* no search is being followed
SearchIdle ==
    /\ search_in = [adapter |-> "", limit |-> 0, fails |-> FALSE, items |-> <<>>]
    /\ search_out = NotCalled
\* normalize_content is not being followed
NormalizeIdle ==
    /\ content = None
    /\ normalized = NotCalled
WorkerIdle ==
    /\ RunIdle
    /\ DbEmpty
    /\ HistoryEmpty
    /\ queue = <<>>
    /\ executions = 0
    /\ active = {}

CalcIdle ==
    /\ reviews = <<>>
    /\ responses = <<>>
    /\ summary_reply = NoReply
    /\ analyses = <<>>
    /\ rating = NotCalled
AnalyzeIdle ==
    /\ review = NoReview
    /\ response = Raise
    /\ analysis = NotCalled

InitAnalyze ==
    /\ review \in AnalyzeReviews
    /\ response \in AnalyzeResponses
    /\ analysis = NotCalled
    /\ CalcIdle
    /\ WorkerIdle
    /\ SearchIdle
    /\ NormalizeIdle

Analyze ==
    /\ analysis = NotCalled
    /\ analysis' = analyze_review(review, response)
    /\ UNCHANGED <<review, response, calc_vars, worker_vars, search_vars, text_vars>>

SpecAnalyze == InitAnalyze /\ [][Analyze]_vars

----------------------------------------------------------------------------
(* SpecCalc: one call of calculate_rating.  The list is a prefix of up to
   MaxVaried arbitrary items followed by copies of one filler item, so that
   lists on both sides of the 20-review cap are reached. *)
MaxVaried == 2
MaxExtra == 1

CalcReviews ==
    { [source_type |-> "wirecutter", upvotes |-> Some(150), comment_count |-> None],
      [source_type |-> "reddit", upvotes |-> Some(15), comment_count |-> Some(30)],
      [source_type |-> "forum", upvotes |-> None, comment_count |-> None],
      [source_type |-> "blog", upvotes |-> Some(-5), comment_count |-> Some(0)] }
CalcResponses ==
    { Raise,
      Json(Num(Fin(2)), List(<<PhraseA>>), Absent),
      Json(Num(Fin(-2)), Absent, List(<<PhraseB>>)),
      Json(Num(Fin(1)), List(<<PhraseA, PhraseC>>), List(<<PhraseB>>)),
      Json(Num(Fin(1998)), Absent, Absent),
      Json(Num(NonFinite), Absent, Absent) }
CalcItems == [review : CalcReviews, response : CalcResponses]
CalcFillers ==
    { [review |-> [source_type |-> "reddit", upvotes |-> Some(15), comment_count |-> Some(30)],
       response |-> Json(Num(Fin(1)), List(<<PhraseA, PhraseC>>), List(<<PhraseB>>))],
      [review |-> [source_type |-> "forum", upvotes |-> None, comment_count |-> None],
       response |-> Raise],
      [review |-> [source_type |-> "wirecutter", upvotes |-> Some(150), comment_count |-> None],
       response |-> Json(Num(Fin(1998)), Absent, Absent)] }
PadCounts == {0} \cup ((AnalyzeCap - 1)..(AnalyzeCap - 1 + MaxExtra))
SummaryReplies ==
    { [kind |-> "raise", text |-> ""],
      [kind |-> "text", text |-> "No reviews available for analysis."] }

ItemLists == UNION {[1..n -> CalcItems] : n \in 0..MaxVaried}
Padded(items, filler, k) == items \o [i \in 1..k |-> filler]

InitCalc ==
    /\ \E items \in ItemLists, filler \in CalcFillers, k \in PadCounts :
          LET all == Padded(items, filler, k)
          IN  /\ reviews = [i \in 1..Len(all) |-> all[i].review]
              /\ responses = [i \in 1..Len(all) |-> all[i].response]
    /\ summary_reply \in SummaryReplies
    /\ analyses = <<>>
    /\ rating = NotCalled
    /\ AnalyzeIdle
    /\ WorkerIdle
    /\ SearchIdle
    /\ NormalizeIdle

Calculate ==
    /\ rating = NotCalled
    /\ analyses' = (IF reviews = <<>> THEN <<>> ELSE Analyses(reviews, responses))
    /\ rating' = calculate_rating(reviews, responses, summary_reply)
    /\ UNCHANGED <<reviews, responses, summary_reply, analyze_vars, worker_vars,
                   search_vars, text_vars>>

SpecCalc == InitCalc /\ [][Calculate]_vars

----------------------------------------------------------------------------
(* Properties of calculate_rating (SpecCalc). *)
Returned == rating # NotCalled /\ ~rating.raised
NonEmptyCall == rating # NotCalled /\ reviews # <<>>

\* C1: for every non-empty list and every analyzer result, calculate_rating
\* returns, and its ai_rating is an integer between 0 and 100.
C1_ScoreInRange ==
    NonEmptyCall => ~rating.raised /\ rating.ai_rating \in 0..100

\* What does hold of ai_rating: whenever calculate_rating returns at all, the
\* clamp of line 199 keeps the score in range, also for the sentiment 999.
ScoreInRangeWhenReturned ==
    Returned => rating.ai_rating \in 0..100

\* C2: for a non-empty list the returned rating has sentiment_score in [-1,1],
\* value_score, reliability_score and confidence in [0,1], and every per-item
\* analysis has its sentiment in [-1,1], whatever the backend answered.
C2_FieldsInRange ==
    (Returned /\ reviews # <<>>) =>
        /\ rating.sentiment_score \in -100..100
        /\ rating.value_score \in 0..100
        /\ rating.reliability_score \in 0..100
        /\ rating.confidence \in 0..100
        /\ \A i \in 1..Len(analyses) : analyses[i].sentiment.v \in -2..2

\* C3: the empty list gives score 50, confidence 0, sourcesAnalyzed 0, no pros,
\* no cons and the fixed summary; no non-empty list gives that rating.
C3_EmptyIsNeutral ==
    rating # NotCalled =>
        /\ reviews = <<>> =>
              /\ ~rating.raised
              /\ rating.ai_rating = 50
              /\ rating.confidence = 0
              /\ rating.sources_analyzed = 0
              /\ rating.pros = <<>>
              /\ rating.cons = <<>>
              /\ rating.summary.kind = "text"
              /\ rating.summary.text = "No reviews available for analysis."
        /\ (reviews # <<>> /\ ~rating.raised) =>
              /\ rating.sources_analyzed > 0
              /\ rating # EmptyRating
C3_Witness == rating # NotCalled /\ reviews = <<>>

\* C7: sources_analyzed is the number of reviews passed in, whether or not an
\* analysis fell back to neutral and whether or not more than 20 were passed.
C7_SourcesAnalyzed ==
    (Returned /\ reviews # <<>>) => rating.sources_analyzed = Len(reviews)
C7_Witness ==
    /\ Returned
    /\ Len(reviews) > AnalyzeCap
    /\ \E i \in 1..Len(analyses) : responses[i].kind = "raise"

\* C9: one review analysed with sentiment 1.0 and weight 1.0 gives
\* sentimentScore 1.0, reliabilityScore 0.5 and confidence 0.24; 0.5 is the
\* reliability whenever fewer than two reviews are analysed.
C9_SingleItem ==
    (Returned /\ reviews # <<>>) =>
        /\ (/\ Len(reviews) = 1
            /\ analyses[1].sentiment.v = 2
            /\ analyses[1].credibility_weight = 100) =>
               /\ rating.sentiment_score = 100
               /\ rating.reliability_score = 50
               /\ rating.confidence = 24
        /\ Len(analyses) < 2 => rating.reliability_score = 50
C9_Witness ==
    /\ Returned
    /\ Len(reviews) = 1
    /\ analyses[1].sentiment.v = 2
    /\ analyses[1].credibility_weight = 100

\* The sum over all pairs i < j of (s[i] - s[j])^2, which is n(n-1) times the
\* sample variance of s.
PairSquares(s) ==
    SumSeq([i \in 1..Len(s) |->
               SumSeq([j \in 1..Len(s) |->
                          IF i < j THEN (s[i] - s[j]) * (s[i] - s[j]) ELSE 0])])
\* Whether r hundredths is 1 - sqrt(num / (4 * den)) floored at 0 and rounded to
\* two decimals (num / den is a variance in halves squared).
IsOneMinusStdev(r, num, den) ==
    IF num >= 4 * den THEN r = 0
    ELSE LET k == 100 - r
         IN  /\ k \in 0..100
             /\ k = 0 \/ (2 * k - 1) * (2 * k - 1) * den <= 10000 * num
             /\ 10000 * num <= (2 * k + 1) * (2 * k + 1) * den

\* C10: two reviews analysed with sentiments 1.0 and -1.0 and equal weights
\* give sentimentScore 0.0 and reliabilityScore 0; with two or more analysed
\* reviews reliabilityScore is max(0, 1 - sample standard deviation of the
\* analysed sentiments), to the two decimals the rating carries.
C10_Reliability ==
    (Returned /\ Len(analyses) >= 2) =>
        LET s == [i \in 1..Len(analyses) |-> analyses[i].sentiment.v]
        IN  /\ IsOneMinusStdev(rating.reliability_score, PairSquares(s),
                               Len(s) * (Len(s) - 1))
            /\ (/\ Len(reviews) = 2
                /\ {s[1], s[2]} = {2, -2}
                /\ analyses[1].credibility_weight = analyses[2].credibility_weight) =>
                   /\ rating.sentiment_score = 0
                   /\ rating.reliability_score = 0
C10_Witness ==
    /\ Returned
    /\ Len(reviews) = 2
    /\ {analyses[1].sentiment.v, analyses[2].sentiment.v} = {2, -2}
    /\ analyses[1].credibility_weight = analyses[2].credibility_weight
\* A reliability strictly between 0 and 1 is reached as well.
C10_WitnessBetween ==
    /\ Returned
    /\ Len(analyses) >= 2
    /\ rating.reliability_score \in 1..99

----------------------------------------------------------------------------
(* Properties of analyze_review (SpecAnalyze). *)

\* The backend behaviours the fallback is for: the call raises, the response
\* holds no parseable fragment, or a field of the fragment cannot be converted.
BackendFailed ==
    \/ response.kind \in {"raise", "nomatch", "badjson"}
    \/ /\ response.kind = "json"
       /\ "bad" \in {response.sentiment.t, response.pros.t, response.cons.t}

\* C6: when the backend call raises, or the response has no parseable fragment,
\* or a field cannot be converted, analyze_review raises nothing and returns
\* sentiment 0, no pros, no cons, and the credibility weight of the review.
C6_NeutralFallback ==
    (analysis # NotCalled /\ BackendFailed) =>
        /\ ~analysis.raised
        /\ analysis.sentiment = Fin(0)
        /\ analysis.pros = <<>>
        /\ analysis.cons = <<>>
        /\ analysis.credibility_weight = credibility(review)
        /\ analysis.credibility_weight >= 50
C6_Witness ==
    /\ analysis # NotCalled
    /\ response.kind = "json"
    /\ response.sentiment.t = "bad"
    /\ review.source_type = "wirecutter"
    /\ analysis.credibility_weight = 95

\* The bonus as C8 states it, by ranges of the upvote count.
StatedBonus(upvotes) ==
    IF upvotes = None THEN 0
    ELSE IF upvotes[1] > 100 THEN 10
    ELSE IF 50 < upvotes[1] /\ upvotes[1] <= 100 THEN 5
    ELSE IF 10 < upvotes[1] /\ upvotes[1] <= 50 THEN 2
    ELSE 0
\* The weight of `review` with its upvotes replaced by u.
WeightWith(u) ==
    analyze_review([review EXCEPT !.upvotes = u], response).credibility_weight
\* At most as many upvotes; None counts as none.
FewerUpvotes(u, v) == OrZero(u) <= OrZero(v)
\* The review sites of scrapers/review_sites.py
EditorialTypes == {"wirecutter", "rtings", "techradar"}

-----------------------------------------------------------------------------
(* worker.py: the task scrape_product_reviews, the task scrape_url, and the
   two tables they write.  A worker process runs one task at a time; each
   step below is one statement (or one loop iteration) of the task. *)
max_retries == 3
MaxRuns == 2        \* tasks submitted to the workers
MaxCollected == 2   \* length of all_reviews

\* products.category of the two products (the `category` argument)
category(p) == IF p = "p1" THEN "audio" ELSE "none"

\* worker.py 58-70: the adapters, in the order they are run
scrapers(cat) ==
    <<"reddit", "youtube", "wirecutter", "rtings", "techradar">>
    \o (IF cat \in {"headphones", "audio", "electronics"} THEN <<"headfi">> ELSE <<>>)
    \o (IF cat \in {"home_theater", "tv", "audio"} THEN <<"avsforum">> ELSE <<>>)

\* the source_type attribute of each adapter class
source_type(name) ==
    IF name \in {"headfi", "avsforum"} THEN "forum" ELSE name

\* The review an adapter builds for the one page it finds.  reddit and youtube
\* fill in upvotes and comment_count; the forum thread found has no likes.
Found(name) ==
    [source_type |-> source_type(name),
     source_url |-> name,
     upvotes |-> (IF name = "reddit" THEN Some(150)
                  ELSE IF name = "youtube" THEN Some(0) ELSE None),
     comment_count |-> (IF name = "reddit" THEN Some(30)
                        ELSE IF name = "youtube" THEN Some(0) ELSE None)]

\* The adapters for which the web holds a page about the product.
Indexed == {"reddit", "wirecutter"}

\* What search() can return: nothing, the page, or (wirecutter follows every
\* matching link without remembering the ones it has seen) the page twice.
SearchResults(name) ==
    {<<>>}
    \cup (IF name \in Indexed THEN {<<Found(name)>>} ELSE {})
    \cup (IF name = "wirecutter" THEN {<<Found(name), Found(name)>>} ELSE {})

Urls(rows) == {rows[i].source_url : i \in DOMAIN rows}

\* SELECT id FROM review_sources WHERE source_url = :url, inside the worker's
\* transaction: it sees the committed rows and the transaction's own inserts.
ExistingNever(w, url) == FALSE
Existing(w, url) == url \in Urls(review_sources) \cup Urls(session[w])

\* the unique index on review_sources.source_url, as the INSERT meets it
UniqueViolation(w, url) == url \in Urls(review_sources) \cup Urls(session[w])

\* Another worker's open ingestion transaction has inserted `url` and not yet
\* ended: an INSERT of the same source_url waits on the index entry until that
\* transaction commits or rolls back.
InsertWaits(w, url) ==
    \E v \in AllWorkers \ {w} :
       pc[v] \in {"ingest", "insert"} /\ url \in Urls(session[v])

ReviewRow(p, r) ==
    [product_id |-> p, source_type |-> r.source_type, source_url |-> r.source_url,
     upvotes |-> r.upvotes, comment_count |-> r.comment_count]

\* INSERT INTO product_ratings ... ON CONFLICT (product_id) DO UPDATE SET ...
UpsertAppends(rows, row) == Append(rows, row)
Upsert(rows, row) ==
    IF \E i \in DOMAIN rows : rows[i].product_id = row.product_id
    THEN [i \in DOMAIN rows |->
            IF rows[i].product_id = row.product_id THEN row ELSE rows[i]]
    ELSE Append(rows, row)

\* The analysis backend during one call of calculate_rating: answering as it
\* should, or answering with a number too large for a float.
BackendModes == {"ok", "inf"}
BackendReply(mode, r) ==
    IF mode = "inf" THEN Json(Num(NonFinite), Absent, Absent)
    ELSE IF r.source_type = "reddit" THEN Json(Num(Fin(2)), List(<<PhraseA>>), Absent)
    ELSE IF r.source_type = "youtube" THEN Json(Num(Fin(-2)), Absent, List(<<PhraseB>>))
    ELSE Json(Num(Fin(1)), List(<<PhraseA, PhraseC>>), List(<<PhraseB>>))
SummaryReply(mode) ==
    IF mode = "ok" THEN [kind |-> "text", text |-> "No reviews available for analysis."]
    ELSE [kind |-> "raise", text |-> ""]

RemoveAt(s, i) == [j \in 1..(Len(s) - 1) |-> IF j < i THEN s[j] ELSE s[j + 1]]

\* The task ends: its locals are gone, its outcome is recorded.
End(w, status, err) ==
    /\ pc' = [pc EXCEPT ![w] = "idle"]
    /\ result' = [result EXCEPT ![w] =
          [status |-> status, error |-> err, product_id |-> task[w].product_id]]
    /\ task' = [task EXCEPT ![w] = NoTask]
    /\ scraper_i' = [scraper_i EXCEPT ![w] = 1]
    /\ all_reviews' = [all_reviews EXCEPT ![w] = <<>>]
    /\ review_i' = [review_i EXCEPT ![w] = 1]
    /\ session' = [session EXCEPT ![w] = <<>>]
    /\ rating_out' = [rating_out EXCEPT ![w] = NotCalled]
    /\ stored_before' = [stored_before EXCEPT ![w] = {}]
    /\ at_start' = [at_start EXCEPT ![w] = NoSnapshot]
    /\ some_failed' = [some_failed EXCEPT ![w] = FALSE]

\* worker.py 174-176: `raise self.retry(exc=e, countdown=60)`.  An open
\* transaction has been rolled back by get_db.  The task is queued again with
\* one more retry while it has retries left (the task raises celery's Retry:
\* outcome "retry"); after max_retries self.retry re-raises `exc` itself, which
\* leaves the task (outcome "exception").  The task has no `return` here.
RetriesLeftInclusive(t) == t.retries <= max_retries
RetriesLeft(t) == t.retries < max_retries
TaskError(w, err) ==
    IF RetriesLeft(task[w])
    THEN /\ queue' = Append(queue, [task[w] EXCEPT !.retries = @ + 1])
         /\ End(w, "retry", err)
    ELSE /\ queue' = queue
         /\ End(w, "exception", err)

\* A worker takes a task: the locals of scrape_product_reviews at line 53.
Begin(w, t) ==
    /\ pc' = [pc EXCEPT ![w] = "scrape"]
    /\ task' = [task EXCEPT ![w] = t]
    /\ scraper_i' = [scraper_i EXCEPT ![w] = 1]
    /\ all_reviews' = [all_reviews EXCEPT ![w] = <<>>]
    /\ review_i' = [review_i EXCEPT ![w] = 1]
    /\ session' = [session EXCEPT ![w] = <<>>]
    /\ rating_out' = [rating_out EXCEPT ![w] = NotCalled]
    /\ result' = [result EXCEPT ![w] = NoResult]
    /\ at_start' = [at_start EXCEPT ![w] =
          [review_sources |-> review_sources, product_ratings |-> product_ratings,
           last_scraped_at |-> last_scraped_at]]
    /\ UNCHANGED <<stored_before, prev_reviews, last_success, some_failed>>

\* scrape_product_reviews.delay(product_id, ...): a new task, no retries yet
Start(w, p) ==
    /\ w \in active
    /\ pc[w] = "idle"
    /\ executions < MaxRuns
    /\ executions' = executions + 1
    /\ Begin(w, [product_id |-> p, retries |-> 0])
    /\ UNCHANGED <<db_vars, queue, active, analyze_vars, calc_vars,
                   search_vars, text_vars>>

\* a task that asked for a retry is delivered again
StartRetry(w, i) ==
    /\ w \in active
    /\ pc[w] = "idle"
    /\ Begin(w, queue[i])
    /\ queue' = RemoveAt(queue, i)
    /\ UNCHANGED <<db_vars, executions, active, analyze_vars, calc_vars,
                   search_vars, text_vars>>

\* worker.py 72-77: one iteration of the loop over the adapters, search()
\* returning its list
Scrape(w) ==
    /\ pc[w] = "scrape"
    /\ scraper_i[w] <= Len(scrapers(category(task[w].product_id)))
    /\ LET name == scrapers(category(task[w].product_id))[scraper_i[w]]
       IN  \E found \in SearchResults(name) :
              /\ Len(all_reviews[w]) + Len(found) <= MaxCollected
              /\ all_reviews' = [all_reviews EXCEPT ![w] = @ \o found]
    /\ scraper_i' = [scraper_i EXCEPT ![w] = @ + 1]
    /\ UNCHANGED <<db_vars, queue, executions, active, pc, task, review_i, session,
                   rating_out, result, history_vars, analyze_vars, calc_vars,
                   search_vars, text_vars>>

\* worker.py 78-79: search() raises; the exception is printed and the loop
\* goes on with the next adapter.  What follows a caught exception.
AbortsRun(w) == TaskError(w, "ScraperError")
SkipsAdapter(w) ==
    /\ scraper_i' = [scraper_i EXCEPT ![w] = @ + 1]
    /\ some_failed' = [some_failed EXCEPT ![w] = TRUE]
    /\ UNCHANGED <<queue, pc, task, all_reviews, review_i, session, rating_out,
                   result, stored_before, at_start>>
ScrapeRaises(w) ==
    /\ pc[w] = "scrape"
    /\ scraper_i[w] <= Len(scrapers(category(task[w].product_id)))
    /\ SkipsAdapter(w)
    /\ UNCHANGED <<db_vars, executions, active, prev_reviews, last_success,
                   analyze_vars, calc_vars,
                   search_vars, text_vars>>

\* worker.py 83: `if not all_reviews:`
NotEmptyChecked(w) == FALSE
NothingFound(w) == all_reviews[w] = <<>>

\* worker.py 83-85
ReturnNoReviews(w) ==
    /\ pc[w] = "scrape"
    /\ scraper_i[w] > Len(scrapers(category(task[w].product_id)))
    /\ NothingFound(w)
    /\ End(w, "no_reviews", "")
    /\ UNCHANGED <<db_vars, queue, executions, active, prev_reviews, last_success,
                   analyze_vars, calc_vars,
                   search_vars, text_vars>>

\* worker.py 88: `with get_db() as db:` opens the ingestion transaction
BeginIngest(w) ==
    /\ pc[w] = "scrape"
    /\ scraper_i[w] > Len(scrapers(category(task[w].product_id)))
    /\ ~NothingFound(w)
    /\ pc' = [pc EXCEPT ![w] = "ingest"]
    /\ review_i' = [review_i EXCEPT ![w] = 1]
    /\ session' = [session EXCEPT ![w] = <<>>]
    /\ stored_before' = [stored_before EXCEPT ![w] = Urls(review_sources)]
    /\ UNCHANGED <<db_vars, queue, executions, active, task, scraper_i, all_reviews,
                   rating_out, result, prev_reviews, last_success, at_start,
                   some_failed, analyze_vars, calc_vars,
                   search_vars, text_vars>>

\* worker.py 89-114: one iteration of the loop over all_reviews.  An INSERT
\* that meets the unique index raises; get_db rolls back and the task's
\* handler asks for a retry.
IngestReview(w) ==
    /\ pc[w] = "ingest"
    /\ review_i[w] <= Len(all_reviews[w])
    /\ LET r == all_reviews[w][review_i[w]]
       IN  IF Existing(w, r.source_url)
           THEN /\ review_i' = [review_i EXCEPT ![w] = @ + 1]
                /\ UNCHANGED <<session, pc, queue, result, task, scraper_i,
                               all_reviews, rating_out, stored_before, at_start,
                               some_failed>>
           ELSE IF UniqueViolation(w, r.source_url)
           THEN TaskError(w, "IntegrityError")
           ELSE IF InsertWaits(w, r.source_url)
           THEN /\ pc' = [pc EXCEPT ![w] = "insert"]
                /\ UNCHANGED <<session, review_i, queue, result, task, scraper_i,
                               all_reviews, rating_out, stored_before, at_start,
                               some_failed>>
           ELSE /\ session' = [session EXCEPT ![w] =
                                  Append(@, ReviewRow(task[w].product_id, r))]
                /\ review_i' = [review_i EXCEPT ![w] = @ + 1]
                /\ UNCHANGED <<pc, queue, result, task, scraper_i, all_reviews,
                               rating_out, stored_before, at_start, some_failed>>
    /\ UNCHANGED <<db_vars, executions, active, prev_reviews, last_success,
                   analyze_vars, calc_vars,
                   search_vars, text_vars>>

\* worker.py 99-114, the INSERT that had to wait: the other transaction has
\* ended.  If it committed, the row is there and the INSERT raises; if it was
\* rolled back, the INSERT goes through.
InsertResumes(w) ==
    /\ pc[w] = "insert"
    /\ LET r == all_reviews[w][review_i[w]]
       IN  /\ ~InsertWaits(w, r.source_url)
           /\ IF r.source_url \in Urls(review_sources)
              THEN TaskError(w, "IntegrityError")
              ELSE /\ session' = [session EXCEPT ![w] =
                                     Append(@, ReviewRow(task[w].product_id, r))]
                   /\ review_i' = [review_i EXCEPT ![w] = @ + 1]
                   /\ pc' = [pc EXCEPT ![w] = "ingest"]
                   /\ UNCHANGED <<queue, result, task, scraper_i, all_reviews,
                                  rating_out, stored_before, at_start, some_failed>>
    /\ UNCHANGED <<db_vars, executions, active, prev_reviews, last_success,
                   analyze_vars, calc_vars,
                   search_vars, text_vars>>

\* database.py 24: db.commit() -- the table once the transaction's inserts are
\* applied to it
CommitDeferred(rows, pending) == rows
commit(rows, pending) == rows \o pending

\* database.py 23-24: the block ends and db.commit() makes the inserts visible
CommitIngest(w) ==
    /\ pc[w] = "ingest"
    /\ review_i[w] > Len(all_reviews[w])
    /\ review_sources' = commit(review_sources, session[w])
    /\ session' = [session EXCEPT ![w] = <<>>]
    /\ prev_reviews' = all_reviews[w]
    /\ pc' = [pc EXCEPT ![w] = "rate"]
    /\ UNCHANGED <<product_ratings, last_scraped_at, now, queue, executions, active,
                   task, scraper_i, all_reviews, review_i, rating_out, result,
                   stored_before, last_success, at_start, some_failed,
                   analyze_vars, calc_vars,
                   search_vars, text_vars>>

\* database.py 25-27: db.rollback() -- what is left of the transaction's
\* writes to be applied to the tables
RollbackKeepsWrites(pending) == pending
rollback(pending) == <<>>

\* the database fails inside the ingestion block; the transaction is rolled
\* back and the exception reaches the task's handler
FailIngest(w) ==
    /\ pc[w] = "ingest"
    /\ review_sources' = review_sources \o rollback(session[w])
    /\ TaskError(w, "OperationalError")
    /\ UNCHANGED <<product_ratings, last_scraped_at, now, executions, active,
                   prev_reviews, last_success, analyze_vars, calc_vars,
                   search_vars, text_vars>>

\* worker.py 118: rating = calculate_rating(product_name, all_reviews); an
\* exception of the calculator reaches the task's handler
RateNewItems(w) ==
    /\ pc[w] = "rate"
    /\ \E mode \in BackendModes :
          LET new == SelectSeq(all_reviews[w],
                               LAMBDA r : r.source_url \notin stored_before[w])
              resps == [i \in DOMAIN new |-> BackendReply(mode, new[i])]
              out == calculate_rating(new, resps, SummaryReply(mode))
          IN  IF out.raised
              THEN TaskError(w, "calculate_rating")
              ELSE /\ rating_out' = [rating_out EXCEPT ![w] = out]
                   /\ pc' = [pc EXCEPT ![w] = "save"]
                   /\ UNCHANGED <<queue, result, task, scraper_i, all_reviews,
                                  review_i, session, stored_before, at_start,
                                  some_failed>>
    /\ UNCHANGED <<db_vars, executions, active, prev_reviews, last_success,
                   analyze_vars, calc_vars,
                   search_vars, text_vars>>
Rate(w) ==
    /\ pc[w] = "rate"
    /\ \E mode \in BackendModes :
          LET resps == [i \in DOMAIN all_reviews[w] |-> BackendReply(mode, all_reviews[w][i])]
              out == calculate_rating(all_reviews[w], resps, SummaryReply(mode))
          IN  IF out.raised
              THEN TaskError(w, "calculate_rating")
              ELSE /\ rating_out' = [rating_out EXCEPT ![w] = out]
                   /\ pc' = [pc EXCEPT ![w] = "save"]
                   /\ UNCHANGED <<queue, result, task, scraper_i, all_reviews,
                                  review_i, session, stored_before, at_start,
                                  some_failed>>
    /\ UNCHANGED <<db_vars, executions, active, prev_reviews, last_success,
                   analyze_vars, calc_vars,
                   search_vars, text_vars>>

\* The writes of the second transaction that are pending in `session`, applied
\* to the tables: the rating rows are upserted, the stamps set last_scraped_at.
RECURSIVE ApplyRatings(_, _)
ApplyRatings(rows, pending) ==
    IF pending = <<>> THEN rows
    ELSE ApplyRatings(IF "rating" \in DOMAIN Head(pending)
                      THEN Upsert(rows, Head(pending)) ELSE rows,
                      Tail(pending))
RECURSIVE ApplyStamps(_, _)
ApplyStamps(stamps, pending) ==
    IF pending = <<>> THEN stamps
    ELSE ApplyStamps(IF "last_scraped_at" \in DOMAIN Head(pending)
                     THEN [stamps EXCEPT ![Head(pending).product_id] =
                              Head(pending).last_scraped_at]
                     ELSE stamps,
                     Tail(pending))

\* worker.py 121-156: the second transaction opens and executes INSERT INTO
\* product_ratings ... ON CONFLICT (product_id) DO UPDATE
WriteRating(w) ==
    /\ pc[w] = "save"
    /\ session' = [session EXCEPT ![w] =
          <<[product_id |-> task[w].product_id, rating |-> rating_out[w],
             calculated_at |-> now]>>]
    /\ pc' = [pc EXCEPT ![w] = "stamp"]
    /\ UNCHANGED <<db_vars, queue, executions, active, task, scraper_i, all_reviews,
                   review_i, rating_out, result, history_vars, analyze_vars, calc_vars,
                   search_vars, text_vars>>

\* worker.py 158-162: UPDATE products SET last_scraped_at = NOW()
StampProduct(w) ==
    /\ pc[w] = "stamp"
    /\ session' = [session EXCEPT ![w] =
          Append(@, [product_id |-> task[w].product_id, last_scraped_at |-> now])]
    /\ pc' = [pc EXCEPT ![w] = "commit"]
    /\ UNCHANGED <<db_vars, queue, executions, active, task, scraper_i, all_reviews,
                   review_i, rating_out, result, history_vars, analyze_vars, calc_vars,
                   search_vars, text_vars>>

\* database.py 23-24 and worker.py 164-172: the block ends, db.commit() makes
\* both writes visible, and the task returns "success" (nothing between the
\* commit and the return can fail).
SaveRating(w) ==
    /\ pc[w] = "commit"
    /\ product_ratings' = ApplyRatings(product_ratings, session[w])
    /\ last_scraped_at' = ApplyStamps(last_scraped_at, session[w])
    /\ last_success' = [last_success EXCEPT ![task[w].product_id] =
                           Some([rating |-> rating_out[w], calculated_at |-> now])]
    /\ now' = now + 1
    /\ End(w, "success", "")
    /\ UNCHANGED <<review_sources, queue, executions, active, prev_reviews,
                   analyze_vars, calc_vars,
                   search_vars, text_vars>>

\* the database fails inside the second block, at any of its statements or at
\* the commit: rollback, then the handler
FailSave(w) ==
    /\ pc[w] \in {"save", "stamp", "commit"}
    /\ product_ratings' = ApplyRatings(product_ratings, rollback(session[w]))
    /\ last_scraped_at' = ApplyStamps(last_scraped_at, rollback(session[w]))
    /\ TaskError(w, "OperationalError: product_ratings")
    /\ UNCHANGED <<review_sources, now, executions, active, prev_reviews, last_success,
                   analyze_vars, calc_vars,
                   search_vars, text_vars>>

\* worker.py 214-270: the task scrape_url, run whole.  The page is not
\* scraped ("failed"), or it is and, when a product is given, stored with
\* INSERT ... ON CONFLICT (source_url) DO NOTHING.
ScrapeUrl(w, name, scraped, target) ==
    /\ w \in active
    /\ pc[w] = "idle"
    /\ executions < MaxRuns
    /\ executions' = executions + 1
    \* the INSERT waits while another transaction holds the source_url
    /\ (scraped /\ target # None) => ~InsertWaits(w, Found(name).source_url)
    /\ review_sources' =
          IF scraped /\ target # None /\ Found(name).source_url \notin Urls(review_sources)
          THEN Append(review_sources, ReviewRow(target[1], Found(name)))
          ELSE review_sources
    /\ result' = [result EXCEPT ![w] =
          [status |-> (IF scraped THEN "success" ELSE "failed"), error |-> "",
           product_id |-> (IF target = None THEN "" ELSE target[1])]]
    /\ UNCHANGED <<product_ratings, last_scraped_at, now, queue, active, pc, task,
                   scraper_i, all_reviews, review_i, session, rating_out,
                   history_vars, analyze_vars, calc_vars,
                   search_vars, text_vars>>

Init ==
    /\ AnalyzeIdle
    /\ CalcIdle
    /\ RunIdle
    /\ DbEmpty
    /\ HistoryEmpty
    /\ SearchIdle
    /\ NormalizeIdle
    /\ queue = <<>>
    /\ executions = 0
    /\ active = {"w1"}

Next ==
    \E w \in AllWorkers :
       \/ \E p \in Products : Start(w, p)
       \/ \E i \in DOMAIN queue : StartRetry(w, i)
       \/ Scrape(w)
       \/ ReturnNoReviews(w)
       \/ BeginIngest(w)
       \/ IngestReview(w)
       \/ CommitIngest(w)
       \/ FailIngest(w)
       \/ Rate(w)
       \/ WriteRating(w)
       \/ StampProduct(w)
       \/ SaveRating(w)
       \/ FailSave(w)
       \/ \E name \in Indexed, scraped \in BOOLEAN, target \in {None} \cup {Some(p) : p \in Products} :
             ScrapeUrl(w, name, scraped, target)

Spec == Init /\ [][Next]_vars

\* Two worker processes take tasks at the same time (celery's prefork pool, or
\* two worker hosts): the steps of their runs interleave, each run in its own
\* database transactions.
InitTwo ==
    /\ AnalyzeIdle
    /\ CalcIdle
    /\ RunIdle
    /\ DbEmpty
    /\ HistoryEmpty
    /\ SearchIdle
    /\ NormalizeIdle
    /\ queue = <<>>
    /\ executions = 0
    /\ active = AllWorkers

\* Both runs are followed until they have ended; a retry that was asked for is
\* not delivered before that (countdown=60).
SpecTwo ==
    InitTwo /\ [][\E w \in AllWorkers :
                     \/ \E p \in Products : Start(w, p)
                     \/ Scrape(w)
                     \/ ReturnNoReviews(w)
                     \/ BeginIngest(w)
                     \/ IngestReview(w)
                     \/ InsertResumes(w)
                     \/ CommitIngest(w)
                     \/ FailIngest(w)
                     \/ Rate(w)
                     \/ WriteRating(w)
                     \/ StampProduct(w)
                     \/ SaveRating(w)]_vars

\* worker.py 30: task_time_limit=600.  The pool kills the process that runs the
\* task wherever it is; the connection is lost with its open transaction, the
\* message is acknowledged and nothing is queued again.
Cancel(w) ==
    /\ w \in active
    /\ pc[w] # "idle"
    /\ End(w, "killed", "TimeLimitExceeded")
    /\ UNCHANGED <<db_vars, queue, executions, active, prev_reviews, last_success,
                   analyze_vars, calc_vars,
                   search_vars, text_vars>>

\* The runs of the worker with their faults: adapters that raise, tasks killed
\* at the time limit.
NextFaults ==
    \/ Next
    \/ \E w \in AllWorkers : ScrapeRaises(w)
    \/ \E w \in AllWorkers : Cancel(w)

SpecFaults == Init /\ [][NextFaults]_vars

\* The worker keeps working: a task it has begun takes its next step, a retry
\* that is queued is delivered after its countdown.  (The call of
\* calculate_rating is enabled exactly when a task stands before it, whatever
\* the backend answers; its weak fairness is written out with that condition.)
NextButRate ==
    \E w \in AllWorkers :
       \/ \E i \in DOMAIN queue : StartRetry(w, i)
       \/ Scrape(w)
       \/ ReturnNoReviews(w)
       \/ BeginIngest(w)
       \/ IngestReview(w)
       \/ CommitIngest(w)
       \/ WriteRating(w)
       \/ StampProduct(w)
       \/ SaveRating(w)
Progress ==
    /\ WF_vars(NextButRate)
    /\ \/ []<>(\A w \in AllWorkers : pc[w] # "rate")
       \/ []<><<\E w \in AllWorkers : Rate(w)>>_vars
SpecLive == Spec /\ Progress

-----------------------------------------------------------------------------
(* Properties of the worker (Spec): one worker process, tasks one after the
   other. *)
Count(rows, p) == Cardinality({i \in DOMAIN rows : rows[i].product_id = p})
NoDuplicateUrls(rows) ==
    \A i, j \in DOMAIN rows : rows[i].source_url = rows[j].source_url => i = j
Ingesting(w) == pc[w] = "ingest"
LoopDone(w) == Ingesting(w) /\ review_i[w] > Len(all_reviews[w])

\* C4: ingestion is idempotent.  Whatever tasks have run one after the other,
\* review_sources holds at most one row per source_url and no INSERT has met
\* the unique index; the rows a run is about to commit are exactly one per
\* collected source_url that was not stored when its ingestion began; and a
\* run that collected the same items as the last committed ingestion inserts
\* no row at all.
C4_Idempotent ==
    /\ NoDuplicateUrls(review_sources)
    /\ \A w \in AllWorkers :
          /\ result[w].error # "IntegrityError"
          /\ Ingesting(w) =>
                /\ NoDuplicateUrls(review_sources \o session[w])
                /\ Urls(session[w]) =
                      Urls(SubSeq(all_reviews[w], 1, review_i[w] - 1)) \ stored_before[w]
                /\ (all_reviews[w] = prev_reviews => session[w] = <<>>)
\* a run has gone through the whole list of a previous run and inserted nothing
C4_Witness ==
    /\ LoopDone("w1")
    /\ all_reviews["w1"] = prev_reviews
    /\ session["w1"] = <<>>
    /\ review_sources # <<>>
\* a run meets the same source_url twice in its own list and inserts it once
C4_WitnessRepeated ==
    /\ LoopDone("w1")
    /\ Len(all_reviews["w1"]) = 2
    /\ Len(session["w1"]) = 1
    /\ all_reviews["w1"][1] = all_reviews["w1"][2]

\* C5: product_ratings holds exactly one row for every product that has had a
\* successful run and none for the others, and that row carries every value
\* and the calculated_at of the product's most recent successful run.
C5_OneRatingPerProduct ==
    \A p \in Products :
       IF last_success[p] = None
       THEN Count(product_ratings, p) = 0
       ELSE /\ Count(product_ratings, p) = 1
            /\ \A i \in DOMAIN product_ratings :
                  product_ratings[i].product_id = p =>
                     /\ product_ratings[i].rating = last_success[p][1].rating
                     /\ product_ratings[i].calculated_at = last_success[p][1].calculated_at
\* a product has been rated twice (the clock has moved on since its first
\* rating) and the table still holds its one row, with the second time
C5_Witness ==
    /\ Len(product_ratings) = 1
    /\ product_ratings[1].calculated_at = 2
    /\ last_success[product_ratings[1].product_id] # None
\* two products have been rated, each has its own row
C5_WitnessTwoProducts ==
    /\ Len(product_ratings) = 2
    /\ product_ratings[1].product_id # product_ratings[2].product_id

-----------------------------------------------------------------------------
(* SpecPros: one call of calculate_rating on up to MaxPhraseItems reviews
   whose analyses carry prepared phrase lists: the same phrase in several
   spellings, more than five distinct phrases, ties, empty phrases, a list
   longer than the three phrases analyze_review keeps. *)
MaxPhraseItems == 3

Sp == " "
PhraseLists ==
    { <<PhraseA, PhraseB, PhraseC>>,
      <<<<Sp, "g", "o", "o", "d", Sp>>, PhraseD, <<"a">>>>,
      <<<<"G", "O", "O", "D">>, <<"b">>, <<"D", "o">>>>,
      <<<<"o", Sp, "k">>, <<"O", Sp, Sp, "k">>, PhraseC>>,
      <<<<Sp>>, <<>>, <<"B", "a", "d", Sp>>>>,
      <<<<"b">>, <<"b">>, <<"B">>, PhraseA>> }
PhraseResponses ==
    {Raise}
    \cup {Json(Num(Fin(1)), List(p), Absent) : p \in PhraseLists}
    \cup {Json(Num(Fin(1)), Absent, List(p)) : p \in PhraseLists}
PhraseReview == [source_type |-> "reddit", upvotes |-> Some(15), comment_count |-> Some(30)]

InitPros ==
    /\ \E n \in 1..MaxPhraseItems :
          /\ reviews = [i \in 1..n |-> PhraseReview]
          /\ responses \in [1..n -> PhraseResponses]
    /\ summary_reply = NoReply
    /\ analyses = <<>>
    /\ rating = NotCalled
    /\ AnalyzeIdle
    /\ WorkerIdle
    /\ SearchIdle
    /\ NormalizeIdle

SpecPros == InitPros /\ [][Calculate]_vars

\* What the properties below call the same phrase, spelled out apart from the
\* model's own lower() and strip().
Folded(c) ==
    CASE c = "G" -> "g" [] c = "B" -> "b" [] c = "O" -> "o"
      [] c = "K" -> "k" [] c = "D" -> "d" [] c = "A" -> "a" [] OTHER -> c
NoSpace(p) == SelectSeq([i \in 1..Len(p) |-> Folded(p[i])], LAMBDA c : c # Sp)
Inner(p) ==
    LET solid == {i \in 1..Len(p) : p[i] # Sp}
    IN  IF solid = {} THEN <<>>
        ELSE LET lo == CHOOSE i \in solid : \A j \in solid : i <= j
                 hi == CHOOSE i \in solid : \A j \in solid : j <= i
             IN  [i \in 1..(hi - lo + 1) |-> Folded(p[lo + i - 1])]
\* the phrases the analyses hold, in the order the aggregation scans them
RawPros == Flatten([i \in 1..Len(analyses) |-> analyses[i].pros])
RawCons == Flatten([i \in 1..Len(analyses) |-> analyses[i].cons])
Freq(raw, k) == Cardinality({i \in 1..Len(raw) : Inner(raw[i]) = k})
FirstSeen(raw, k) == CHOOSE i \in 1..Len(raw) :
                        Inner(raw[i]) = k /\ \A j \in 1..(i - 1) : Inner(raw[j]) # k
Keys(raw) == {Inner(raw[i]) : i \in 1..Len(raw)} \ {<<>>}

-----------------------------------------------------------------------------
(* Properties of the pros/cons aggregation (SpecPros). *)
OnePerBucket(top, same(_)) ==
    \A i, j \in 1..Len(top) : same(top[i]) = same(top[j]) => i = j
ByCombinedCount(top, raw) ==
    /\ \A i \in 1..Len(top) : Inner(top[i]) \in Keys(raw)
    /\ \A i, j \in 1..Len(top) :
          i < j => Freq(raw, Inner(top[i])) >= Freq(raw, Inner(top[j]))

\* C11 as stated: two phrases that differ only by letter case and/or
\* whitespace, wherever the whitespace is, never both appear in the returned
\* pros (or cons).
C11_AnyWhitespaceMerged ==
    Returned => /\ OnePerBucket(rating.pros, NoSpace)
                /\ OnePerBucket(rating.cons, NoSpace)

\* C11: two phrases that differ only by letter case and/or leading and
\* trailing whitespace fall into one bucket: the returned pros (and cons) name
\* each bucket at most once and are ranked by the buckets' combined counts.
C11_Merged ==
    Returned => /\ OnePerBucket(rating.pros, Inner)
                /\ OnePerBucket(rating.cons, Inner)
                /\ ByCombinedCount(rating.pros, RawPros)
                /\ ByCombinedCount(rating.cons, RawCons)
\* two spellings of one phrase were counted together, which put it first
\* although another phrase was seen before it
C11_Witness ==
    /\ Returned
    /\ Len(rating.pros) >= 2
    /\ \E i, j \in 1..Len(RawPros) :
          /\ RawPros[i] # RawPros[j]
          /\ Inner(RawPros[i]) = Inner(RawPros[j])
          /\ Inner(rating.pros[1]) = Inner(RawPros[i])
          /\ FirstSeen(RawPros, Inner(RawPros[i])) > 1


RanksBefore(raw, a, b) ==
    \/ Freq(raw, Inner(a)) > Freq(raw, Inner(b))
    \/ /\ Freq(raw, Inner(a)) = Freq(raw, Inner(b))
       /\ FirstSeen(raw, Inner(a)) < FirstSeen(raw, Inner(b))
TopFive(top, raw) ==
    /\ Len(top) <= 5
    /\ \A i \in 1..Len(top) : Inner(top[i]) \in Keys(raw)
    /\ \A i, j \in 1..Len(top) : i < j => RanksBefore(raw, top[i], top[j])
    /\ \A k \in Keys(raw) \ {Inner(top[i]) : i \in 1..Len(top)} :
          /\ Len(top) = 5
          /\ \A i \in 1..Len(top) : Freq(raw, Inner(top[i])) >= Freq(raw, k)

\* C12: the returned pros (and cons) are at most 5 phrases in descending
\* frequency over the analysed items, equal frequencies in first-seen order,
\* and a phrase is left out only when five phrases at least as frequent are
\* returned.
C12_TopFive ==
    Returned => TopFive(rating.pros, RawPros) /\ TopFive(rating.cons, RawCons)
\* six phrases were seen, five are returned, two of them with equal frequency
C12_Witness ==
    /\ Returned
    /\ Cardinality(Keys(RawPros)) > 5
    /\ Len(rating.pros) = 5
    /\ Freq(RawPros, Inner(rating.pros[3])) = Freq(RawPros, Inner(rating.pros[4]))
    /\ Freq(RawPros, Inner(rating.pros[1])) > Freq(RawPros, Inner(rating.pros[2]))


-----------------------------------------------------------------------------
(* The final score (SpecCalc). *)
\* 50 + 30*sentiment + 10*reliability + 5*value + 5*popularity, in E4 units
ScoreSumE4 ==
    500000 + 30 * sentiment_score(analyses)
    + 10 * reliability_score([i \in 1..Len(analyses) |-> analyses[i].sentiment.v])
    + 5 * value_score(analyses) + 5 * popularity_score(reviews)
\* the integers nearest to sum / 10000 (two of them on an exact half)
Nearest(sum) ==
    LET q == sum \div 10000
        r == sum % 10000
    IN  IF r < 5000 THEN {q} ELSE IF r > 5000 THEN {q + 1} ELSE {q, q + 1}

\* C13: for every non-empty list the final score is the weighted sum rounded
\* to the nearest integer, then clamped to 0..100.
C13_RoundedScore ==
    (NonEmptyCall /\ Returned) =>
        \E n \in Nearest(ScoreSumE4) : rating.ai_rating = Max(0, Min(100, n))

-----------------------------------------------------------------------------
\* The tables as the task of worker w found them when it began.
TablesAsAtStart(w) ==
    /\ review_sources' = at_start[w].review_sources
    /\ product_ratings' = at_start[w].product_ratings
    /\ last_scraped_at' = at_start[w].last_scraped_at

\* The loop over the adapters is over and none of them has brought an item.
FanOutYieldedNothing(w) ==
    /\ pc[w] = "scrape"
    /\ scraper_i[w] > Len(scrapers(category(task[w].product_id)))
    /\ Len(all_reviews[w]) = 0

\* C14: when every adapter has returned zero items or raised, the next step of
\* the task (unless it is killed there) is its return with status no_reviews,
\* which is not "success"; and a task that returns no_reviews has called
\* calculate_rating never and leaves review_sources, product_ratings and
\* last_scraped_at exactly as they were when it began.
C14_NoReviewsWritesNothing ==
    [][\A w \in AllWorkers :
          /\ (FanOutYieldedNothing(w) /\ pc'[w] # pc[w] /\ result'[w].status # "killed")
                => result'[w].status = "no_reviews"
          /\ (pc[w] # "idle" /\ pc'[w] = "idle" /\ result'[w].status = "no_reviews")
                => /\ FanOutYieldedNothing(w)
                   /\ rating_out[w] = NotCalled
                   /\ TablesAsAtStart(w)
                   /\ review_sources' = review_sources]_vars

\* a run has returned no_reviews for a product whose rating and items an
\* earlier run stored
C14_Witness ==
    /\ result["w1"].status = "no_reviews"
    /\ product_ratings # <<>>
    /\ review_sources # <<>>
    /\ \E i \in DOMAIN product_ratings :
          product_ratings[i].product_id = result["w1"].product_id

-----------------------------------------------------------------------------
\* The ways an execution of scrape_product_reviews may end: a returned result
\* with one of the three statuses, or the raised retry signal.
Reported == {"success", "no_reviews", "failed"}

\* C15: every execution of the task that has ended returned a result whose
\* status is success, no_reviews or failed, or raised the retry signal; the
\* execution that fails with its retries exhausted returned status failed, and
\* no exception of its own left the task.
C15_StatusOrRetry ==
    \A w \in AllWorkers :
       result[w] # NoResult =>
          /\ result[w].status \in Reported \cup {"retry"}
          /\ (result[w].error # "" /\ result[w].status # "retry") => result[w].status = "failed"

-----------------------------------------------------------------------------
\* The adapters configured for the product of worker w's task.
Configured(w) == scrapers(category(task[w].product_id))

\* C16: an adapter whose search raises does not abort the run.  The step in
\* which it raises adds no item, ends nothing and moves on to the next adapter;
\* the run leaves the fan-out only after every configured adapter was invoked
\* (or when it is killed); and what the other adapters brought is all stored
\* once ingestion is committed and all counted in the rating that is computed.
C16_AdapterFailureContained ==
    [][\A w \in AllWorkers :
          /\ (some_failed'[w] /\ ~some_failed[w])
                => /\ pc'[w] = "scrape"
                   /\ all_reviews'[w] = all_reviews[w]
                   /\ scraper_i'[w] = scraper_i[w] + 1
                   /\ result'[w] = result[w]
                   /\ queue' = queue
          /\ (pc[w] = "scrape" /\ pc'[w] # "scrape" /\ result'[w].status # "killed")
                => scraper_i[w] = Len(Configured(w)) + 1
          /\ (pc[w] = "ingest" /\ pc'[w] = "rate")
                => \A i \in DOMAIN all_reviews[w] :
                      \E j \in DOMAIN review_sources' :
                         /\ review_sources'[j].source_url = all_reviews[w][i].source_url
          /\ (pc[w] = "rate" /\ pc'[w] = "save")
                => /\ all_reviews'[w] = all_reviews[w]
                   /\ rating_out'[w].sources_analyzed = Len(all_reviews[w])]_vars

\* an adapter raised, another one brought items, and the run has stored them
\* and computed the rating it is about to write
C16_Witness ==
    /\ some_failed["w1"]
    /\ pc["w1"] = "save"
    /\ Len(all_reviews["w1"]) > 0
    /\ rating_out["w1"] # NotCalled
    /\ \A i \in DOMAIN all_reviews["w1"] :
          \E j \in DOMAIN review_sources :
             review_sources[j].source_url = all_reviews["w1"][i].source_url

-----------------------------------------------------------------------------
\* The outcomes after which a run is over for good.
Final == {"success", "no_reviews", "exception"}
Running(p) == \E w \in AllWorkers : pc[w] # "idle" /\ task[w].product_id = p
Over(p) ==
    \E w \in AllWorkers :
       pc[w] = "idle" /\ result[w].product_id = p /\ result[w].status \in Final

\* C17: retries are bounded and safe.  No execution carries more than 3
\* retries and no queued retry either; an execution that fails asks for a
\* retry only while it has run fewer than 3 retries, and after the third retry
\* its failure is final and nothing is queued; whatever was retried, no
\* source_url is stored twice and no product has two rating rows; and every run
\* that is under way is followed by an outcome success, no_reviews or final
\* failure for its product.
C17_BoundedRetries ==
    /\ [](/\ \A w \in AllWorkers : task[w].retries \in 0..3
          /\ \A i \in DOMAIN queue : queue[i].retries \in 1..3
          /\ \A i, j \in DOMAIN review_sources :
                review_sources[i].source_url = review_sources[j].source_url => i = j
          /\ \A p \in Products : Count(product_ratings, p) <= 1)
    /\ [][\A w \in AllWorkers :
             (pc[w] # "idle" /\ pc'[w] = "idle" /\ result'[w].error # "") =>
                IF task[w].retries < 3
                THEN /\ result'[w].status = "retry"
                     /\ Len(queue') = Len(queue) + 1
                     /\ queue'[Len(queue')].retries = task[w].retries + 1
                     /\ queue'[Len(queue')].product_id = task[w].product_id
                ELSE /\ result'[w].status = "exception"
                     /\ queue' = queue]_vars
    /\ \A p \in Products : Running(p) ~> Over(p)

\* a run has failed for the last time on its third retry, after an earlier
\* execution of it had stored its items
C17_Witness ==
    /\ result["w1"].status = "exception"
    /\ pc["w1"] = "idle"
    /\ queue = <<>>
    /\ \E i \in DOMAIN review_sources :
          review_sources[i].product_id = result["w1"].product_id

-----------------------------------------------------------------------------
\* The execution of worker w ends in this step without having succeeded.
EndsFailed(w) ==
    /\ pc[w] # "idle"
    /\ pc'[w] = "idle"
    /\ result'[w].status \in {"retry", "exception", "killed"}
InRatingTransaction(w) == pc[w] \in {"save", "stamp", "commit"}

\* C18: the rating write is all-or-nothing.  While the second transaction is
\* open, whatever it has executed, product_ratings and the products'
\* last_scraped_at are as they were when the task began; an execution that ends
\* without success, wherever it failed or was killed, leaves both exactly so;
\* and the step that writes either of them writes both, for the task's product
\* and with the same time, at the successful return.
C18_RatingAllOrNothing ==
    [][\A w \in AllWorkers :
          /\ InRatingTransaction(w) =>
                /\ product_ratings = at_start[w].product_ratings
                /\ last_scraped_at = at_start[w].last_scraped_at
          /\ EndsFailed(w) =>
                /\ product_ratings' = at_start[w].product_ratings
                /\ last_scraped_at' = at_start[w].last_scraped_at
          /\ (pc[w] # "idle" /\ (product_ratings' # product_ratings
                                   \/ last_scraped_at' # last_scraped_at)) =>
                /\ result'[w].status = "success"
                /\ last_scraped_at'[task[w].product_id] = now
                /\ \A p \in Products \ {task[w].product_id} :
                      last_scraped_at'[p] = last_scraped_at[p]
                /\ Count(product_ratings', task[w].product_id) = 1
                /\ \A i \in DOMAIN product_ratings' :
                      IF product_ratings'[i].product_id = task[w].product_id
                      THEN /\ product_ratings'[i].calculated_at = now
                           /\ product_ratings'[i].rating = rating_out[w]
                      ELSE /\ i \in DOMAIN product_ratings
                           /\ product_ratings'[i] = product_ratings[i]]_vars

\* the rating write of a run has failed for a product rated by an earlier
\* run, whose row and time stamp are still the stored ones
C18_Witness ==
    /\ result["w1"].error = "OperationalError: product_ratings"
    /\ pc["w1"] = "idle"
    /\ now = 2
    /\ last_scraped_at[result["w1"].product_id] = 1
    /\ \E i \in DOMAIN product_ratings :
          /\ product_ratings[i].product_id = result["w1"].product_id
          /\ product_ratings[i].calculated_at = 1

-----------------------------------------------------------------------------
\* The rows of review_sources survive the step, in their places.
ItemsRemain ==
    /\ Len(review_sources') >= Len(review_sources)
    /\ \A i \in DOMAIN review_sources : review_sources'[i] = review_sources[i]
AfterIngestion(w) == pc[w] \in {"rate", "save", "stamp", "commit"}
Stored(url) == \E i \in DOMAIN review_sources : review_sources[i].source_url = url

\* C19: ingestion and aggregation are separate phases.  calculate_rating has
\* not been called while the task collects and ingests; from the moment it
\* stands before calculate_rating every item it collected is a committed row of
\* review_sources and no insert is pending; and no step takes a row away, in
\* particular not the step in which the rating computation or the rating write
\* fails or the task is killed.
C19_ItemsSurviveRating ==
    [][/\ ItemsRemain
       /\ \A w \in AllWorkers :
             /\ pc[w] \in {"scrape", "ingest"} => rating_out[w] = NotCalled
             /\ AfterIngestion(w) =>
                   /\ \A i \in DOMAIN all_reviews[w] : Stored(all_reviews[w][i].source_url)
                   /\ \A i \in DOMAIN session[w] : "source_url" \notin DOMAIN session[w][i]
                   /\ Len(review_sources) >=
                         Len(at_start[w].review_sources)
                            + Cardinality(Urls(all_reviews[w]) \ Urls(at_start[w].review_sources))
             /\ (AfterIngestion(w) /\ pc'[w] = "idle" /\ result'[w].status # "success")
                   => review_sources' = review_sources]_vars

\* the first execution ever has stored its items, then its rating computation
\* failed: the items are there, no rating is
C19_Witness ==
    /\ executions = 1
    /\ result["w1"].error = "calculate_rating"
    /\ result["w1"].status = "retry"
    /\ pc["w1"] = "idle"
    /\ product_ratings = <<>>
    /\ Len(review_sources) = 2
    /\ \A i \in DOMAIN review_sources :
          review_sources[i].product_id = result["w1"].product_id

-----------------------------------------------------------------------------
\* One call of an adapter's search(query, limit).

MaxLimit == 2       \* `limit` is drawn from 1..MaxLimit
MaxItems == 3       \* entries of a backend's result list

\* The pages a result list can link to; "" is an entry without a target.
Pages == {"a", "b"}

\* worker.py 58-70: the adapters
Adapters == {"reddit", "youtube", "wirecutter", "rtings", "techradar", "headfi", "avsforum"}

\* One entry of a backend's result list: the page it links to, whether it is
\* from a subreddit of the query's category (reddit only), and whether the
\* adapter gets a review out of it (the post has content, the video's
\* statistics and comments are served, scrape_url returns a review).
BackendItems(adapter) ==
    [url : Pages \cup {""},
     relevant : (IF adapter = "reddit" THEN BOOLEAN ELSE {TRUE}),
     good : BOOLEAN]

\* scrape_url(url) returns a review: what the page of the first entry with
\* that target gives
scrape_url(items, url) ==
    \E i \in DOMAIN items :
       /\ items[i].url = url
       /\ items[i].good
       /\ \A j \in 1..(i - 1) : items[j].url # url

\* reddit.py 118-140: the loop over the search results
RECURSIVE RedditLoop(_, _, _)
RedditLoop(posts, limit, acc) ==
    IF posts = <<>> THEN acc
    ELSE IF ~Head(posts).relevant /\ Len(acc) >= limit \div 2
    THEN RedditLoop(Tail(posts), limit, acc)
    ELSE IF ~Head(posts).good
    THEN RedditLoop(Tail(posts), limit, acc)
    ELSE IF Len(acc) + 1 >= limit
    THEN Append(acc, Head(posts).url)
    ELSE RedditLoop(Tail(posts), limit, Append(acc, Head(posts).url))

\* youtube.py 39-54: the loop over the videos; _get_video_comments (61-128)
\* returns one review for the video, or none when a request of it fails
RECURSIVE YouTubeLoop(_, _, _)
YouTubeLoop(videos, limit, acc) ==
    IF videos = <<>> THEN acc
    ELSE LET extended == acc \o (IF Head(videos).good THEN <<Head(videos).url>> ELSE <<>>)
         IN  IF Len(extended) >= limit THEN extended
             ELSE YouTubeLoop(Tail(videos), limit, extended)

\* the slice s[:limit] of youtube.py 59, review_sites.py 37, 127, 137, 235,
\* 245 and forums.py 31, 127
Unsliced(s, limit) == s
Sliced(s, limit) == Take(s, limit)

\* rtings 126-132, techradar 237-243, forums 30-35 and 126-131: urls_seen
urls_seen(links) == {links[i].url : i \in DOMAIN links} \ {""}

\* search(query, limit) of the adapter on the backend's answer: the
\* source_urls of the reviews returned.  `order` is the order in which the set
\* urls_seen is iterated.
\*   reddit.py 100-145, youtube.py 20-59, review_sites.py 17-51, 110-145,
\*   216-253, forums.py 14-50, 110-145
search(in, order) ==
    IF in.fails THEN <<>>
    ELSE CASE in.adapter = "reddit" -> RedditLoop(in.items, in.limit, <<>>)
           [] in.adapter = "youtube" -> Sliced(YouTubeLoop(in.items, in.limit, <<>>), in.limit)
           [] in.adapter = "wirecutter" ->
                 LET articles == SelectSeq(Sliced(in.items, in.limit), LAMBDA a : a.good)
                 IN  [i \in DOMAIN articles |-> articles[i].url]
           [] in.adapter \in {"rtings", "techradar"} ->
                 SelectSeq(Sliced(order, in.limit), LAMBDA u : scrape_url(in.items, u))
           [] in.adapter \in {"headfi", "avsforum"} ->
                 Take(SelectSeq(order, LAMBDA u : scrape_url(in.items, u)), in.limit)

\* the links search reads from the result page before it collects urls_seen
LinksRead(in) ==
    IF in.adapter \in {"rtings", "techradar"} THEN Sliced(in.items, in.limit * 2)
    ELSE IF in.adapter \in {"headfi", "avsforum"} THEN Sliced(in.items, in.limit)
    ELSE <<>>

Search ==
    /\ search_out = NotCalled
    /\ LET seen == urls_seen(LinksRead(search_in))
       IN  \E order \in [1..Cardinality(seen) -> seen] :
              /\ \A i, j \in DOMAIN order : order[i] = order[j] => i = j
              /\ search_out' = [called |-> TRUE, reviews |-> search(search_in, order)]
    /\ UNCHANGED <<search_in, analyze_vars, calc_vars, worker_vars, text_vars>>

InitSearch ==
    /\ AnalyzeIdle
    /\ CalcIdle
    /\ WorkerIdle
    /\ NormalizeIdle
    /\ search_out = NotCalled
    /\ \E adapter \in Adapters, limit \in 1..MaxLimit, fails \in BOOLEAN, n \in 0..MaxItems :
          \E items \in [1..n -> BackendItems(adapter)] :
             search_in = [adapter |-> adapter, limit |-> limit, fails |-> fails, items |-> items]

SpecSearch == InitSearch /\ [][Search]_vars

\* C20: whatever adapter is called with whatever limit and whatever its
\* backend answers, the list search returns has at most `limit` reviews.
C20_AtMostLimit ==
    search_out # NotCalled => Len(search_out.reviews) <= search_in.limit

\* the result page listed more articles with a review than `limit`, and the
\* search returned exactly `limit` reviews
C20_Witness ==
    /\ search_out # NotCalled
    /\ search_in.adapter = "wirecutter"
    /\ Cardinality({i \in DOMAIN search_in.items : search_in.items[i].good}) > search_in.limit
    /\ Len(search_out.reviews) = search_in.limit

-----------------------------------------------------------------------------
\* C21: the list one search call returns holds no two reviews with the same
\* source_url, whatever the adapter and whatever its backend answers, also
\* when the result page lists one link more than once.
C21_NoRepeatedSourceUrl ==
    search_out # NotCalled =>
       \A i, j \in DOMAIN search_out.reviews :
          search_out.reviews[i] = search_out.reviews[j] => i = j

-----------------------------------------------------------------------------
\* One call of BaseScraper.normalize_content(content).

MaxRaw == 6         \* characters of the text passed in
MaxKept == 3        \* the length kept, 5000 in base.py 61-62, scaled to the texts

\* base.py 58: " ".join(content.split())
RECURSIVE join_split(_)
join_split(s) ==
    IF s = <<>> THEN <<>>
    ELSE IF Head(s) \in Whitespace THEN join_split(Tail(s))
    ELSE LET n == CHOOSE k \in 1..Len(s) :
                     /\ \A i \in 1..k : s[i] \notin Whitespace
                     /\ k = Len(s) \/ s[k + 1] \in Whitespace
             rest == join_split(SubSeq(s, n + 1, Len(s)))
         IN  SubSeq(s, 1, n) \o (IF rest = <<>> THEN <<>> ELSE <<" ">> \o rest)

\* base.py 52-64
normalize_content(c) ==
    IF c = None \/ c = Some(<<>>) THEN <<>>
    ELSE LET joined == join_split(c[1])
         IN  IF Len(joined) > MaxKept
             THEN SubSeq(joined, 1, MaxKept) \o <<".", ".", ".">>
             ELSE joined

Normalize ==
    /\ normalized = NotCalled
    /\ normalized' = [called |-> TRUE, text |-> normalize_content(content)]
    /\ UNCHANGED <<content, analyze_vars, calc_vars, worker_vars, search_vars>>

InitNormalize ==
    /\ AnalyzeIdle
    /\ CalcIdle
    /\ WorkerIdle
    /\ SearchIdle
    /\ normalized = NotCalled
    /\ \/ content = None
       \/ \E n \in 0..MaxRaw : \E t \in [1..n -> {" ", "\n", "a"}] : content = Some(t)

SpecNormalize == InitNormalize /\ [][Normalize]_vars

\* The text passed in (absent: empty), and the positions of it that the
\* collapsed text keeps: every character that is not white, and the first
\* white one of a run that stands between two words.
IsWhite(c) == c = " " \/ c = "\n"
RawText == IF content = None THEN <<>> ELSE content[1]
KeptAt(t) ==
    {i \in DOMAIN t :
        \/ ~IsWhite(t[i])
        \/ /\ i > 1
           /\ ~IsWhite(t[i - 1])
           /\ \E j \in (i + 1)..Len(t) : ~IsWhite(t[j])}
CollapsedText(t) ==
    LET kept == KeptAt(t)
        at(k) == CHOOSE i \in kept : Cardinality({j \in kept : j < i}) = k - 1
    IN  [k \in 1..Cardinality(kept) |-> IF IsWhite(t[at(k)]) THEN " " ELSE t[at(k)]]

\* C22: normalize_content returns a text for every argument, the absent and
\* the empty one included; the text neither begins nor ends with whitespace
\* and has no two whitespace characters in a row; it is the collapsed text
\* itself when that is not longer than the maximum, and otherwise exactly the
\* first `maximum` characters of it followed by "...".
C22_Normalized ==
    normalized # NotCalled =>
       LET out == normalized.text
           collapsed == CollapsedText(RawText)
       IN  /\ out \in Seq({" ", "\n", "a", "."})
           /\ out # <<>> => ~IsWhite(out[1]) /\ ~IsWhite(out[Len(out)])
           /\ \A i \in 1..(Len(out) - 1) : ~(IsWhite(out[i]) /\ IsWhite(out[i + 1]))
           /\ IF Len(collapsed) > MaxKept
              THEN /\ Len(out) = MaxKept + 3
                   /\ SubSeq(out, 1, MaxKept) = SubSeq(collapsed, 1, MaxKept)
                   /\ SubSeq(out, MaxKept + 1, MaxKept + 3) = <<".", ".", ".">>
              ELSE out = collapsed

\* a text with a run of whitespace inside and around it, too long once
\* collapsed, came back cut with the marker
C22_Witness ==
    /\ normalized # NotCalled
    /\ content # None
    /\ Len(CollapsedText(RawText)) > MaxKept
    /\ \E i \in 1..(Len(RawText) - 1) : IsWhite(RawText[i]) /\ IsWhite(RawText[i + 1])
    /\ Len(normalized.text) = MaxKept + 3

-----------------------------------------------------------------------------
(* SpecExtract: analyze_review on a response text.  The text is a sequence of
   tokens: "{" and "}"; "x", prose; "1" and "2", the member text
   "sentiment": 0.5 resp. "sentiment": 1.0 with its pros; "k", the text
   , "meta": that introduces a nested object. *)
MaxSegments == 3

\* rating_calculator.py 96: re.search(r"\{[^}]+\}", text, re.DOTALL) -- the
\* leftmost "{" that is followed by at least one character other than "}" and
\* then by a "}", up to that first "}"
re_search(text) ==
    LET starts == {i \in 1..(Len(text) - 2) :
                      /\ text[i] = "{"
                      /\ text[i + 1] # "}"
                      /\ \E j \in (i + 2)..Len(text) : text[j] = "}"}
    IN  IF starts = {} THEN None
        ELSE LET i == CHOOSE a \in starts : \A b \in starts : a <= b
                 j == CHOOSE a \in (i + 2)..Len(text) :
                         text[a] = "}" /\ \A b \in (i + 2)..(a - 1) : text[b] # "}"
             IN  Some(SubSeq(text, i, j))

\* rating_calculator.py 91-98: what analyze_review gets from a response with
\* this text.  json.loads accepts the matched text, which has no "}" before
\* its last character, exactly when one member stands between its braces.
Reply(text) ==
    LET json_match == re_search(text)
        kind == IF json_match = None THEN "nomatch"
                ELSE IF Len(json_match[1]) = 3 /\ json_match[1][2] \in {"1", "2"}
                THEN "json" ELSE "badjson"
    IN  [kind |-> kind,
         sentiment |-> (IF kind # "json" THEN Absent
                        ELSE IF json_match[1][2] = "1" THEN Num(Fin(1)) ELSE Num(Fin(2))),
         pros |-> (IF kind # "json" THEN Absent
                   ELSE IF json_match[1][2] = "1" THEN List(<<PhraseA>>) ELSE List(<<PhraseB>>)),
         cons |-> Absent,
         text |-> text]

InitExtract ==
    /\ review = [source_type |-> "reddit", upvotes |-> None, comment_count |-> None]
    \* the pieces a response text is made of: prose, an object with one
    \* member, braces around prose, empty braces, an object with a nested
    \* object, and stray braces
    /\ LET Segments ==
               { <<"x">>, <<"{", "1", "}">>, <<"{", "2", "}">>, <<"{", "x", "}">>,
                 <<"{", "}">>, <<"{", "1", "k", "{", "2", "}", "}">>, <<"{">>, <<"}">> }
       IN  \E n \in 0..MaxSegments : \E segs \in [1..n -> Segments] :
              response = Reply(Flatten(segs))
    /\ analysis = NotCalled
    /\ CalcIdle
    /\ WorkerIdle
    /\ SearchIdle
    /\ NormalizeIdle

SpecExtract == InitExtract /\ [][Analyze]_vars

\* A well-formed object of the token language: one member between braces,
\* possibly followed by a nested object of one member.
WellFormed(f) ==
    \/ Len(f) = 3 /\ f[1] = "{" /\ f[2] \in {"1", "2"} /\ f[3] = "}"
    \/ /\ Len(f) = 7
       /\ f[1] = "{" /\ f[2] \in {"1", "2"} /\ f[3] = "k" /\ f[4] = "{"
       /\ f[5] \in {"1", "2"} /\ f[6] = "}" /\ f[7] = "}"
FragmentsAt(text) ==
    {i \in DOMAIN text : \E n \in {3, 7} :
        i + n - 1 <= Len(text) /\ WellFormed(SubSeq(text, i, i + n - 1))}
\* the member of the first well-formed fragment of the text
FirstMember(text) ==
    text[(CHOOSE i \in FragmentsAt(text) : \A j \in FragmentsAt(text) : i <= j) + 1]

\* C23: when the response text holds a well-formed fragment, analyze_review
\* returns the sentiment and the pros of the first such fragment, whatever
\* prose, braces or malformed fragments stand before it and whether or not the
\* fragment has an object nested in it; it does not fall back to the neutral
\* analysis.
C23_FirstWellFormedFragment ==
    (analysis # NotCalled /\ "text" \in DOMAIN response /\ FragmentsAt(response.text) # {}) =>
        /\ analysis.sentiment = (IF FirstMember(response.text) = "1" THEN Fin(1) ELSE Fin(2))
        /\ analysis.pros = (IF FirstMember(response.text) = "1" THEN <<PhraseA>> ELSE <<PhraseB>>)


----------------------------------------------------------------------------
(* The 20-item cap of calculate_rating (SpecCalc). *)

\* C24: calculate_rating calls analyze_review once for each of the first 20
\* reviews, in input order, and for no review after the 20th, so that the
\* number of calls is min(len(reviews), 20); and sentiment_score,
\* reliability_score, pros and cons are computed from those analyses alone,
\* hence from the first 20 reviews.
C24_FirstTwentyAnalyzed ==
    NonEmptyCall =>
        LET first == IF Len(reviews) <= 20 THEN Len(reviews) ELSE 20
        IN  /\ Len(analyses) = first
            /\ \A i \in 1..first : analyses[i] = analyze_review(reviews[i], responses[i])
            /\ Returned =>
                  /\ rating.sentiment_score = sentiment_score_2(analyses)
                  /\ rating.reliability_score =
                        reliability_score_2([i \in 1..first |-> analyses[i].sentiment.v])
                  /\ rating.pros = TopPhrases([i \in 1..first |-> analyses[i].pros])
                  /\ rating.cons = TopPhrases([i \in 1..first |-> analyses[i].cons])
\* a call with more than 20 reviews whose first review is not like the 21st
C24_Witness ==
    /\ Returned
    /\ Len(reviews) > 20
    /\ Len(analyses) = 20
    /\ reviews[1] # reviews[21]
    /\ responses[1] # responses[21]
    /\ rating.pros # <<>>


----------------------------------------------------------------------------
(* The confidence of calculate_rating (SpecCalc), in hundredths. *)

\* 0.6 * min(1, n / 15), in hundredths
VolumeTerm(n) == IF n >= 15 THEN 60 ELSE (60 * n) \div 15

\* C25: for a non-empty list of n reviews, confidence is
\* 0.6 * min(1, n / 15) + 0.4 * reliability_score with n the uncapped number of
\* reviews.  Both values are reported rounded to two places, so the reported
\* confidence is within 0.007 of the sum formed from the reported reliability,
\* and is the sum exactly where the reliability is exactly 0.5 or 1.0.  The
\* volume term does not decrease with n and is 0.6 from 15 reviews on.
C25_Confidence ==
    (Returned /\ reviews # <<>>) =>
        LET n == Len(reviews)
            sum10 == 10 * VolumeTerm(n) + 4 * rating.reliability_score
        IN  /\ 10 * rating.confidence - sum10 <= 7
            /\ sum10 - 10 * rating.confidence <= 7
            /\ Len(analyses) = 1 => rating.confidence = VolumeTerm(n) + 20
            /\ rating.reliability_score = 100 =>
                  \/ rating.confidence = VolumeTerm(n) + 40
                  \/ \E i \in DOMAIN analyses : analyses[i] # analyses[1]
            /\ \A m \in 1..n : VolumeTerm(m) <= VolumeTerm(n)
            /\ n >= 15 => VolumeTerm(n) = 60
\* two reviews that disagree: neither term is saturated
C25_Witness ==
    /\ Returned
    /\ Len(reviews) = 2
    /\ rating.reliability_score \in 1..99
    /\ rating.confidence = 8 + (4 * rating.reliability_score + 5) \div 10
\* more than 20 reviews that agree: both terms are at their maximum
C25_WitnessSaturated ==
    /\ Returned
    /\ Len(reviews) > 20
    /\ rating.confidence = 100


----------------------------------------------------------------------------
(* The popularity score of calculate_rating (SpecCalc), in hundredths. *)

\* sum of upvotes + 2 * sum of comment counts over all reviews, absent as 0:
\* popularity_raw in hundredths
RECURSIVE EngagementSum(_)
EngagementSum(revs) ==
    IF revs = <<>> THEN 0
    ELSE (IF Head(revs).upvotes = None THEN 0 ELSE Head(revs).upvotes[1])
         + 2 * (IF Head(revs).comment_count = None THEN 0 ELSE Head(revs).comment_count[1])
         + EngagementSum(Tail(revs))

\* C26: for a non-empty list, whatever the engagement values (absent, zero or
\* any integer), popularity_score is (sum of upvotes / 100 + sum of comments /
\* 50) / len(reviews), the sums over all reviews, clamped to [0,1] from below
\* and from above.
C26_PopularityClamped ==
    (Returned /\ reviews # <<>>) =>
        LET raw == RoundRat(EngagementSum(reviews), Len(reviews))
        IN  rating.popularity_score = (IF raw < 0 THEN 0 ELSE IF raw > 100 THEN 100 ELSE raw)
\* What does hold: the value is the quotient clamped from above only.
PopularityClampedAbove ==
    (Returned /\ reviews # <<>>) =>
        LET raw == RoundRat(EngagementSum(reviews), Len(reviews))
        IN  rating.popularity_score = (IF raw > 100 THEN 100 ELSE raw)


----------------------------------------------------------------------------
(* Two runs at the same time (SpecTwo). *)

\* C27: whatever the interleaving of two runs of scrape_product_reviews whose
\* adapters return a common source_url, review_sources never holds two rows
\* with one source_url, no run waits for the other or fails because of it
\* (no INSERT waits on the other run's transaction, no INSERT meets the unique
\* index), and what a run has collected is stored once its ingestion is over.
C27_ConcurrentRunsIndependent ==
    /\ \A i, j \in DOMAIN review_sources :
          review_sources[i].source_url = review_sources[j].source_url => i = j
    /\ \A w \in AllWorkers :
          /\ pc[w] # "insert"
          /\ result[w].error # "IntegrityError"
          /\ pc[w] \in {"rate", "save", "stamp", "commit"} =>
                \A i \in DOMAIN all_reviews[w] :
                   \E k \in DOMAIN review_sources :
                      review_sources[k].source_url = all_reviews[w][i].source_url


\* a run has its rating and has not yet ended
Rated(w) == pc[w] \in {"save", "stamp", "commit"}

\* C28: the rating of a run is computed from every item the adapters returned
\* in that run, those already stored (and skipped by the ingestion) and those
\* returned more than once included; so two runs with the same adapter results
\* and the same analyzer outputs have the same score, confidence and
\* sources_analyzed, whatever the first has left in the tables.
C28_RatingFromWholeFanOut ==
    \A w \in AllWorkers :
       Rated(w) =>
          /\ rating_out[w].sources_analyzed = Len(all_reviews[w])
          /\ \A v \in AllWorkers :
                (Rated(v) /\ all_reviews[v] = all_reviews[w]) =>
                   /\ rating_out[v].ai_rating = rating_out[w].ai_rating
                   /\ rating_out[v].confidence = rating_out[w].confidence
                   /\ rating_out[v].sources_analyzed = rating_out[w].sources_analyzed
\* the second run found every item stored by the first, one of them returned
\* twice, and has the first run's rating
C28_Witness ==
    /\ pc["w1"] = "commit"
    /\ pc["w2"] = "save"
    /\ all_reviews["w2"] = all_reviews["w1"]
    /\ Len(all_reviews["w2"]) = 2
    /\ all_reviews["w2"][1] = all_reviews["w2"][2]
    /\ \A i \in DOMAIN all_reviews["w2"] : all_reviews["w2"][i].source_url \in stored_before["w2"]
    /\ rating_out["w2"].sources_analyzed = 2
    /\ rating_out["w2"].ai_rating = rating_out["w1"].ai_rating
====
